---- MODULE Spec2Model ----
(***************************************************************************)
(* Verification model of the wallpaper generator (mullinmax/background-gen) *)
(* static/js/state.js, main.js, controls.js, presets.js and the two        *)
(* renderer modules.  JavaScript values are modelled as tagged records;    *)
(* numbers are fixed point, in hundredths (55 is 0.55, 192000 is 1920).    *)
(***************************************************************************)
EXTENDS Integers, Sequences, FiniteSets, TLC

(***************************************************************************)
(* JavaScript values.  An object is the sequence of its own properties in  *)
(* property order, which is the order JSON.stringify and Object.keys use.  *)
(***************************************************************************)
Num(n) == [t |-> "num", v |-> n]
Str(s) == [t |-> "str", v |-> s]
Bool(b) == [t |-> "bool", v |-> b]
Null == [t |-> "null", v |-> 0]
Undef == [t |-> "undef", v |-> 0]
Arr(items) == [t |-> "arr", v |-> items]
Obj(members) == [t |-> "obj", v |-> members]

\* A whole number n as a fixed-point value.
Whole(n) == Num(n * 100)

IsObj(val) == val.t = "obj"
IsArr(val) == val.t = "arr"
IsNum(val) == val.t = "num"
IsStr(val) == val.t = "str"
IsNullish(val) == val.t \in {"null", "undef"}
\* typeof val === 'object'
TypeofObject(val) == val.t \in {"obj", "arr", "null"}

Has(o, k) == IsObj(o) /\ \E i \in 1..Len(o.v) : o.v[i][1] = k
\* o[k]: undefined for a missing property
Get(o, k) ==
  IF Has(o, k) THEN o.v[CHOOSE i \in 1..Len(o.v) : o.v[i][1] = k][2] ELSE Undef
\* o[k] = val: an existing property keeps its place, a new one is appended
Put(o, k, val) ==
  IF Has(o, k)
  THEN Obj([i \in 1..Len(o.v) |-> IF o.v[i][1] = k THEN <<k, val>> ELSE o.v[i]])
  ELSE Obj(Append(o.v, <<k, val>>))
\* o.a.b
Get2(o, a, b) == Get(Get(o, a), b)
Put2(o, a, b, val) == Put(o, a, Put(Get(o, a), b, val))

\* { ...val }: the own enumerable properties of val (an array gives its indices,
\* a number, boolean, null or undefined gives none; strings are not spread in
\* this model).
Spread(val) ==
  CASE val.t = "obj" -> val
    [] val.t = "arr" -> Obj([i \in 1..Len(val.v) |-> <<ToString(i - 1), val.v[i]>>])
    [] val.t \in {"num", "bool", "null", "undef"} -> Obj(<<>>)

(***************************************************************************)
(* state.js                                                                *)
(***************************************************************************)
MAX_GRADIENT_STOPS == 8

\* The value Math.random gave the default seed when the module was loaded.
DefaultSeed == 7

defaultState ==
  Obj(<<
    <<"canvas", Obj(<< <<"width", Whole(1920)>>, <<"height", Whole(1080)>>,
                       <<"previewScale", Num(50)>> >>)>>,
    <<"color", Obj(<< <<"hue", Whole(210)>>, <<"saturation", Num(55)>>,
                      <<"lightness", Num(45)>>, <<"gamma", Num(100)>> >>)>>,
    <<"gradient", Obj(<<
        <<"type", Str("radial")>>,
        <<"mode", Str("continuous")>>,
        <<"angle", Whole(45)>>,
        <<"center", Obj(<< <<"x", Num(50)>>, <<"y", Num(50)>> >>)>>,
        <<"scale", Num(100)>>,
        <<"stops", Arr(<<
            Obj(<< <<"pos", Num(0)>>, <<"hueShift", Num(0)>>,
                   <<"lightnessDelta", Num(0)>>, <<"opacity", Num(100)>> >>),
            Obj(<< <<"pos", Num(100)>>, <<"hueShift", Whole(30)>>,
                   <<"lightnessDelta", Num(25)>>, <<"opacity", Num(60)>> >>) >>)>>,
        <<"blend", Str("overlay")>> >>)>>,
    <<"grain", Obj(<<
        <<"amount", Whole(35)>>,
        <<"size", Str("normal")>>,
        <<"algorithm", Str("fbm")>>,
        <<"octaves", Whole(4)>>,
        <<"lacunarity", Num(200)>>,
        <<"gain", Num(50)>>,
        <<"chroma", Obj(<< <<"enabled", Bool(TRUE)>>, <<"intensity", Num(8)>> >>)>>,
        <<"intensityCurve", Str("s-curve")>>,
        <<"protectShadows", Num(5)>> >>)>>,
    <<"vignette", Obj(<< <<"strength", Num(40)>>, <<"radius", Num(80)>>,
                         <<"feather", Num(60)>>, <<"roundness", Num(100)>>,
                         <<"mode", Str("multiply")>> >>)>>,
    <<"random", Obj(<< <<"seed", Whole(DefaultSeed)>> >>)>>,
    <<"output", Obj(<< <<"format", Str("png")>>, <<"jpgQuality", Num(92)>>,
                       <<"embedMetadata", Bool(TRUE)>> >>)>> >>)

\* structuredClone: a deep copy.  Values of the model are immutable, so a copy
\* is the value itself; aliasing is modelled where a claim is about it.
cloneState(state) == state

Min(a, b) == IF a < b THEN a ELSE b
Max(a, b) == IF a > b THEN a ELSE b
clamp(value, min, max) == Min(Max(value, min), max)

RECURSIVE deepMerge(_, _)
RECURSIVE MergeFrom(_, _, _)
\* The loop body of deepMerge for the i-th key of source, then the later keys.
MergeFrom(target, source, i) ==
  IF i > Len(source.v) THEN target
  ELSE LET key == source.v[i][1]
           value == source.v[i][2]
           old == Get(target, key)
           merged ==
             IF IsObj(value)
             THEN Put(target, key,
                      deepMerge(Spread(IF IsNullish(old) THEN Obj(<<>>) ELSE old), value))
             ELSE IF IsArr(value)
             THEN Put(target, key,
                      Arr([j \in 1..Len(value.v) |->
                             IF TypeofObject(value.v[j]) THEN Spread(value.v[j])
                             ELSE value.v[j]]))
             ELSE IF value.t # "undef"
             THEN Put(target, key, value)
             ELSE target
       IN MergeFrom(merged, source, i + 1)

\* Object.keys(source) of a number or boolean is empty, of an array its indices.
deepMerge(target, source) == MergeFrom(target, Spread(source), 1)

normalizeState(raw) ==
  deepMerge(cloneState(defaultState), IF IsNullish(raw) THEN Obj(<<>>) ELSE raw)


(***************************************************************************)
(* Text.  A JavaScript string is modelled by the sequence of its character *)
(* codes; StrCodes gives the codes of the property names and string values *)
(* the model uses ("cafe_acute" stands for a value with the non-ASCII      *)
(* character U+00E9).                                                      *)
(***************************************************************************)
KnownStrings ==
  {"canvas", "width", "height", "previewScale", "color", "hue",
   "saturation", "lightness", "gamma", "gradient", "type", "mode",
   "angle", "center", "x", "y", "scale", "stops",
   "pos", "hueShift", "lightnessDelta", "opacity", "blend", "grain",
   "amount", "size", "algorithm", "octaves", "lacunarity", "gain",
   "chroma", "enabled", "intensity", "intensityCurve", "protectShadows", "vignette",
   "strength", "radius", "feather", "roundness", "random", "seed",
   "output", "format", "jpgQuality", "embedMetadata", "none", "linear",
   "radial", "conic", "corner-glow", "continuous", "discrete", "normal",
   "overlay", "soft-light", "screen", "fine", "coarse", "uniform",
   "gaussian", "value", "perlin", "fbm", "simplex", "blue-noise",
   "poisson-stipple", "paper-fiber", "log", "s-curve", "multiply", "png",
   "webp", "jpg", "palette", "note", "bogus", "gif",
   "cafe_acute", "0", "1"}

StrCodes(s) ==
  CASE s = "canvas" -> <<99, 97, 110, 118, 97, 115>>
    [] s = "width" -> <<119, 105, 100, 116, 104>>
    [] s = "height" -> <<104, 101, 105, 103, 104, 116>>
    [] s = "previewScale" -> <<112, 114, 101, 118, 105, 101, 119, 83, 99, 97, 108, 101>>
    [] s = "color" -> <<99, 111, 108, 111, 114>>
    [] s = "hue" -> <<104, 117, 101>>
    [] s = "saturation" -> <<115, 97, 116, 117, 114, 97, 116, 105, 111, 110>>
    [] s = "lightness" -> <<108, 105, 103, 104, 116, 110, 101, 115, 115>>
    [] s = "gamma" -> <<103, 97, 109, 109, 97>>
    [] s = "gradient" -> <<103, 114, 97, 100, 105, 101, 110, 116>>
    [] s = "type" -> <<116, 121, 112, 101>>
    [] s = "mode" -> <<109, 111, 100, 101>>
    [] s = "angle" -> <<97, 110, 103, 108, 101>>
    [] s = "center" -> <<99, 101, 110, 116, 101, 114>>
    [] s = "x" -> <<120>>
    [] s = "y" -> <<121>>
    [] s = "scale" -> <<115, 99, 97, 108, 101>>
    [] s = "stops" -> <<115, 116, 111, 112, 115>>
    [] s = "pos" -> <<112, 111, 115>>
    [] s = "hueShift" -> <<104, 117, 101, 83, 104, 105, 102, 116>>
    [] s = "lightnessDelta" -> <<108, 105, 103, 104, 116, 110, 101, 115, 115, 68, 101, 108, 116, 97>>
    [] s = "opacity" -> <<111, 112, 97, 99, 105, 116, 121>>
    [] s = "blend" -> <<98, 108, 101, 110, 100>>
    [] s = "grain" -> <<103, 114, 97, 105, 110>>
    [] s = "amount" -> <<97, 109, 111, 117, 110, 116>>
    [] s = "size" -> <<115, 105, 122, 101>>
    [] s = "algorithm" -> <<97, 108, 103, 111, 114, 105, 116, 104, 109>>
    [] s = "octaves" -> <<111, 99, 116, 97, 118, 101, 115>>
    [] s = "lacunarity" -> <<108, 97, 99, 117, 110, 97, 114, 105, 116, 121>>
    [] s = "gain" -> <<103, 97, 105, 110>>
    [] s = "chroma" -> <<99, 104, 114, 111, 109, 97>>
    [] s = "enabled" -> <<101, 110, 97, 98, 108, 101, 100>>
    [] s = "intensity" -> <<105, 110, 116, 101, 110, 115, 105, 116, 121>>
    [] s = "intensityCurve" -> <<105, 110, 116, 101, 110, 115, 105, 116, 121, 67, 117, 114, 118, 101>>
    [] s = "protectShadows" -> <<112, 114, 111, 116, 101, 99, 116, 83, 104, 97, 100, 111, 119, 115>>
    [] s = "vignette" -> <<118, 105, 103, 110, 101, 116, 116, 101>>
    [] s = "strength" -> <<115, 116, 114, 101, 110, 103, 116, 104>>
    [] s = "radius" -> <<114, 97, 100, 105, 117, 115>>
    [] s = "feather" -> <<102, 101, 97, 116, 104, 101, 114>>
    [] s = "roundness" -> <<114, 111, 117, 110, 100, 110, 101, 115, 115>>
    [] s = "random" -> <<114, 97, 110, 100, 111, 109>>
    [] s = "seed" -> <<115, 101, 101, 100>>
    [] s = "output" -> <<111, 117, 116, 112, 117, 116>>
    [] s = "format" -> <<102, 111, 114, 109, 97, 116>>
    [] s = "jpgQuality" -> <<106, 112, 103, 81, 117, 97, 108, 105, 116, 121>>
    [] s = "embedMetadata" -> <<101, 109, 98, 101, 100, 77, 101, 116, 97, 100, 97, 116, 97>>
    [] s = "none" -> <<110, 111, 110, 101>>
    [] s = "linear" -> <<108, 105, 110, 101, 97, 114>>
    [] s = "radial" -> <<114, 97, 100, 105, 97, 108>>
    [] s = "conic" -> <<99, 111, 110, 105, 99>>
    [] s = "corner-glow" -> <<99, 111, 114, 110, 101, 114, 45, 103, 108, 111, 119>>
    [] s = "continuous" -> <<99, 111, 110, 116, 105, 110, 117, 111, 117, 115>>
    [] s = "discrete" -> <<100, 105, 115, 99, 114, 101, 116, 101>>
    [] s = "normal" -> <<110, 111, 114, 109, 97, 108>>
    [] s = "overlay" -> <<111, 118, 101, 114, 108, 97, 121>>
    [] s = "soft-light" -> <<115, 111, 102, 116, 45, 108, 105, 103, 104, 116>>
    [] s = "screen" -> <<115, 99, 114, 101, 101, 110>>
    [] s = "fine" -> <<102, 105, 110, 101>>
    [] s = "coarse" -> <<99, 111, 97, 114, 115, 101>>
    [] s = "uniform" -> <<117, 110, 105, 102, 111, 114, 109>>
    [] s = "gaussian" -> <<103, 97, 117, 115, 115, 105, 97, 110>>
    [] s = "value" -> <<118, 97, 108, 117, 101>>
    [] s = "perlin" -> <<112, 101, 114, 108, 105, 110>>
    [] s = "fbm" -> <<102, 98, 109>>
    [] s = "simplex" -> <<115, 105, 109, 112, 108, 101, 120>>
    [] s = "blue-noise" -> <<98, 108, 117, 101, 45, 110, 111, 105, 115, 101>>
    [] s = "poisson-stipple" -> <<112, 111, 105, 115, 115, 111, 110, 45, 115, 116, 105, 112, 112, 108, 101>>
    [] s = "paper-fiber" -> <<112, 97, 112, 101, 114, 45, 102, 105, 98, 101, 114>>
    [] s = "log" -> <<108, 111, 103>>
    [] s = "s-curve" -> <<115, 45, 99, 117, 114, 118, 101>>
    [] s = "multiply" -> <<109, 117, 108, 116, 105, 112, 108, 121>>
    [] s = "png" -> <<112, 110, 103>>
    [] s = "webp" -> <<119, 101, 98, 112>>
    [] s = "jpg" -> <<106, 112, 103>>
    [] s = "palette" -> <<112, 97, 108, 101, 116, 116, 101>>
    [] s = "note" -> <<110, 111, 116, 101>>
    [] s = "bogus" -> <<98, 111, 103, 117, 115>>
    [] s = "gif" -> <<103, 105, 102>>
    [] s = "cafe_acute" -> <<99, 97, 102, 233>>
    [] s = "0" -> <<48>>
    [] s = "1" -> <<49>>

\* The string with the given character codes, for the parser.
StringOf(codes) ==
  IF \E s \in KnownStrings : StrCodes(s) = codes
  THEN [ok |-> TRUE, val |-> CHOOSE s \in KnownStrings : StrCodes(s) = codes]
  ELSE [ok |-> FALSE, val |-> ""]

IsDigit(c) == c >= 48 /\ c <= 57

RECURSIVE Digits(_)
Digits(k) == IF k < 10 THEN <<48 + k>> ELSE Digits(k \div 10) \o <<48 + (k % 10)>>

\* Number::toString for a value with at most two decimals: 192000 is "1920",
\* 55 is "0.55", 50 is "0.5", -2500 is "-25".
NumberToString(n) ==
  LET a == IF n < 0 THEN -n ELSE n
      frac == a % 100
      fracText == IF frac = 0 THEN <<>>
                  ELSE <<46, 48 + (frac \div 10)>> \o
                       (IF frac % 10 = 0 THEN <<>> ELSE <<48 + (frac % 10)>>)
  IN (IF n < 0 THEN <<45>> ELSE <<>>) \o Digits(a \div 100) \o fracText

Quote(s) == <<34>> \o StrCodes(s) \o <<34>>

RECURSIVE JSONstringify(_)
RECURSIVE StringifyMembers(_, _, _)
RECURSIVE StringifyItems(_, _)
\* The members of an object from the i-th on; a member whose value is undefined
\* is left out.
StringifyMembers(members, i, first) ==
  IF i > Len(members) THEN <<>>
  ELSE IF members[i][2].t = "undef" THEN StringifyMembers(members, i + 1, first)
  ELSE (IF first THEN <<>> ELSE <<44>>) \o Quote(members[i][1]) \o <<58>> \o
       JSONstringify(members[i][2]) \o StringifyMembers(members, i + 1, FALSE)
\* The items of an array from the i-th on; undefined is written as null.
StringifyItems(items, i) ==
  IF i > Len(items) THEN <<>>
  ELSE (IF i = 1 THEN <<>> ELSE <<44>>) \o
       JSONstringify(IF items[i].t = "undef" THEN Null ELSE items[i]) \o
       StringifyItems(items, i + 1)
JSONstringify(val) ==
  CASE val.t = "num" -> NumberToString(val.v)
    [] val.t = "str" -> Quote(val.v)
    [] val.t = "bool" -> IF val.v THEN <<116, 114, 117, 101>> ELSE <<102, 97, 108, 115, 101>>
    [] val.t = "null" -> <<110, 117, 108, 108>>
    [] val.t = "arr" -> <<91>> \o StringifyItems(val.v, 1) \o <<93>>
    [] val.t = "obj" -> <<123>> \o StringifyMembers(val.v, 1, TRUE) \o <<125>>

(***************************************************************************)
(* JSON.parse of a text without white space (JSON.stringify writes none).  *)
(* A result is [ok, val, pos]: pos is the place after the value read.      *)
(***************************************************************************)
ParseFail == [ok |-> FALSE, val |-> Null, pos |-> 0]
Parsed(val, pos) == [ok |-> TRUE, val |-> val, pos |-> pos]
At(txt, i) == IF i >= 1 /\ i <= Len(txt) THEN txt[i] ELSE -1
\* The first place from i on that holds no digit.
DigitsEnd(txt, i) ==
  CHOOSE j \in i..(Len(txt) + 1) :
    /\ ~IsDigit(At(txt, j))
    /\ \A k \in i..(j - 1) : IsDigit(txt[k])
RECURSIVE DigitsValue(_, _, _)
DigitsValue(txt, i, j) ==
  IF i >= j THEN 0 ELSE DigitsValue(txt, i, j - 1) * 10 + (txt[j - 1] - 48)

ParseNumber(txt, i) ==
  LET neg == At(txt, i) = 45
      s == IF neg THEN i + 1 ELSE i
      e == DigitsEnd(txt, s)
      whole == DigitsValue(txt, s, e)
      hasFrac == At(txt, e) = 46
      fe == IF hasFrac THEN DigitsEnd(txt, e + 1) ELSE e
      nfrac == fe - (e + 1)
      frac == IF ~hasFrac THEN 0
              ELSE IF nfrac = 1 THEN (txt[e + 1] - 48) * 10
              ELSE DigitsValue(txt, e + 1, fe)
      abs == whole * 100 + frac
  IN IF e = s \/ (hasFrac /\ nfrac \notin {1, 2}) THEN ParseFail
     ELSE Parsed(Num(IF neg THEN -abs ELSE abs), fe)

\* The characters between the quotes; the model's strings need no escapes.
ParseStringAt(txt, i) ==
  IF ~\E j \in (i + 1)..Len(txt) : txt[j] = 34 THEN [ok |-> FALSE, val |-> "", pos |-> 0]
  ELSE LET j == CHOOSE j \in (i + 1)..Len(txt) :
                   txt[j] = 34 /\ \A k \in (i + 1)..(j - 1) : txt[k] # 34
           s == StringOf(SubSeq(txt, i + 1, j - 1))
       IN [ok |-> s.ok, val |-> s.val, pos |-> j + 1]

Literal(txt, i, codes) == SubSeq(txt, i, Min(Len(txt), i + Len(codes) - 1)) = codes

RECURSIVE ParseValue(_, _)
RECURSIVE ParseMembers(_, _, _)
RECURSIVE ParseItems(_, _, _)
ParseMembers(txt, i, acc) ==
  LET k == IF At(txt, i) = 34 THEN ParseStringAt(txt, i)
           ELSE [ok |-> FALSE, val |-> "", pos |-> 0]
  IN IF ~k.ok \/ At(txt, k.pos) # 58 THEN ParseFail
     ELSE LET val == ParseValue(txt, k.pos + 1)
              \* a repeated name keeps its first place and takes the last value
              members == Put(Obj(acc), k.val, val.val).v
          IN IF ~val.ok THEN ParseFail
             ELSE IF At(txt, val.pos) = 44 THEN ParseMembers(txt, val.pos + 1, members)
             ELSE IF At(txt, val.pos) = 125 THEN Parsed(Obj(members), val.pos + 1)
             ELSE ParseFail
ParseItems(txt, i, acc) ==
  LET val == ParseValue(txt, i)
  IN IF ~val.ok THEN ParseFail
     ELSE IF At(txt, val.pos) = 44 THEN ParseItems(txt, val.pos + 1, Append(acc, val.val))
     ELSE IF At(txt, val.pos) = 93 THEN Parsed(Arr(Append(acc, val.val)), val.pos + 1)
     ELSE ParseFail
ParseValue(txt, i) ==
  LET c == At(txt, i)
  IN CASE c = 123 -> IF At(txt, i + 1) = 125 THEN Parsed(Obj(<<>>), i + 2)
                     ELSE ParseMembers(txt, i + 1, <<>>)
       [] c = 91 -> IF At(txt, i + 1) = 93 THEN Parsed(Arr(<<>>), i + 2)
                    ELSE ParseItems(txt, i + 1, <<>>)
       [] c = 34 -> LET s == ParseStringAt(txt, i)
                    IN IF s.ok THEN Parsed(Str(s.val), s.pos) ELSE ParseFail
       [] c = 45 \/ IsDigit(c) -> ParseNumber(txt, i)
       [] c = 116 -> IF Literal(txt, i, <<116, 114, 117, 101>>)
                     THEN Parsed(Bool(TRUE), i + 4) ELSE ParseFail
       [] c = 102 -> IF Literal(txt, i, <<102, 97, 108, 115, 101>>)
                     THEN Parsed(Bool(FALSE), i + 5) ELSE ParseFail
       [] c = 110 -> IF Literal(txt, i, <<110, 117, 108, 108>>)
                     THEN Parsed(Null, i + 4) ELSE ParseFail
       [] OTHER -> ParseFail

\* JSON.parse: [ok, val]; not ok is a SyntaxError.
JSONparse(txt) ==
  LET r == ParseValue(txt, 1)
  IN IF r.ok /\ r.pos = Len(txt) + 1 THEN [ok |-> TRUE, val |-> r.val]
     ELSE [ok |-> FALSE, val |-> Null]

serializeState(state) == JSONstringify(state)

\* The catch returns a clone of the defaults.
deserializeState(str) ==
  LET p == JSONparse(str)
  IN IF p.ok THEN normalizeState(p.val) ELSE cloneState(defaultState)


(***************************************************************************)
(* unescape(encodeURIComponent(json)): the UTF-8 bytes of the text, one    *)
(* character per byte.  The model's characters are below U+0800.           *)
(***************************************************************************)
Utf8Bytes(c) == IF c < 128 THEN <<c>> ELSE <<192 + (c \div 64), 128 + (c % 64)>>
RECURSIVE Utf8Range(_, _, _)
Utf8Range(codes, lo, hi) ==
  IF lo > hi THEN <<>>
  ELSE IF lo = hi THEN Utf8Bytes(codes[lo])
  ELSE LET mid == (lo + hi) \div 2
       IN Utf8Range(codes, lo, mid) \o Utf8Range(codes, mid + 1, hi)
Utf8Encode(codes) == Utf8Range(codes, 1, Len(codes))

\* decodeURIComponent(escape(bytes)): [ok, val]; not ok is a URIError, thrown
\* for a byte sequence that is not UTF-8.
IsLead2(b) == b >= 194 /\ b <= 223
IsCont(b) == b >= 128 /\ b <= 191
Utf8Decode(bytes) ==
  LET n == Len(bytes)
      wellFormed ==
        \A i \in 1..n :
          \/ bytes[i] < 128
          \/ IsLead2(bytes[i]) /\ i < n /\ IsCont(bytes[i + 1])
          \/ IsCont(bytes[i]) /\ i > 1 /\ IsLead2(bytes[i - 1])
      starts == SelectSeq([i \in 1..n |-> i], LAMBDA i : ~IsCont(bytes[i]))
  IN IF ~wellFormed THEN [ok |-> FALSE, val |-> <<>>]
     ELSE [ok |-> TRUE,
           val |-> [k \in 1..Len(starts) |->
                      LET i == starts[k]
                      IN IF bytes[i] < 128 THEN bytes[i]
                         ELSE (bytes[i] - 192) * 64 + (bytes[i + 1] - 128)]]

(***************************************************************************)
(* Base64.  A base64 text is the sequence of its characters' places in the *)
(* alphabet A-Za-z0-9+/ (0..63), with Pad for "=".                         *)
(***************************************************************************)
Pad == 64

btoa(bytes) ==
  LET n == Len(bytes)
      byte(i) == IF i <= n THEN bytes[i] ELSE 0
  IN [p \in 1..(4 * ((n + 2) \div 3)) |->
        LET k == (p - 1) \div 4
            j == (p - 1) % 4
            have == Min(3, n - 3 * k)
            b0 == byte(3 * k + 1)
            b1 == byte(3 * k + 2)
            b2 == byte(3 * k + 3)
        IN CASE j = 0 -> b0 \div 4
             [] j = 1 -> (b0 % 4) * 16 + (b1 \div 16)
             [] j = 2 -> IF have >= 2 THEN (b1 % 16) * 4 + (b2 \div 64) ELSE Pad
             [] j = 3 -> IF have = 3 THEN b2 % 64 ELSE Pad]

\* replace(/=+$/, ''): every "=" at the end of the text is removed.
RECURSIVE StripPadding(_)
StripPadding(text) ==
  IF Len(text) > 0 /\ text[Len(text)] = Pad
  THEN StripPadding(SubSeq(text, 1, Len(text) - 1))
  ELSE text

\* atob (forgiving-base64 decode): [ok, val]; not ok is an InvalidCharacterError.
\* A text whose length is a multiple of 4 may end in one or two "="; after that
\* a length of 1 modulo 4 or a character outside the alphabet is an error, and
\* the bits left over after the last whole byte are dropped.
atob(text) ==
  LET n == Len(text)
      cut == IF n % 4 = 0 /\ n >= 2 /\ text[n] = Pad
             THEN (IF text[n - 1] = Pad THEN 2 ELSE 1) ELSE 0
      d == SubSeq(text, 1, n - cut)
      m == Len(d)
  IN IF m % 4 = 1 \/ \E i \in 1..m : d[i] = Pad THEN [ok |-> FALSE, val |-> <<>>]
     ELSE [ok |-> TRUE,
           val |-> [q \in 1..((m * 3) \div 4) |->
                      LET s == ((8 * (q - 1)) \div 6) + 1
                          off == (8 * (q - 1)) % 6
                      IN CASE off = 0 -> d[s] * 4 + (d[s + 1] \div 16)
                           [] off = 2 -> (d[s] % 16) * 16 + (d[s + 1] \div 4)
                           [] off = 4 -> (d[s] % 4) * 64 + d[s + 1]]]

\* A variant that takes the padding to be the last two characters.
encodeStateToUrlSlice(state) ==
  LET json == serializeState(state)
      encoded == btoa(Utf8Encode(json))
  IN SubSeq(encoded, 1, Len(encoded) - 2)

encodeStateToUrl(state) ==
  LET json == serializeState(state)
      encoded == btoa(Utf8Encode(json))
  IN StripPadding(encoded)

\* null for an empty hash and for a hash that atob, the UTF-8 decoder or
\* JSON.parse rejects.
decodeStateFromUrl(hash) ==
  IF hash = <<>> THEN Null
  ELSE LET bytes == atob(hash)
           json == Utf8Decode(bytes.val)
           parsed == JSONparse(json.val)
       IN IF ~bytes.ok THEN Null
          ELSE IF ~json.ok THEN Null
          ELSE IF ~parsed.ok THEN Null
          ELSE normalizeState(parsed.val)

(***************************************************************************)
(* The enumerations and the declared ranges of the settings.               *)
(***************************************************************************)
GRADIENT_TYPES == <<"none", "linear", "radial", "conic", "corner-glow">>
GRADIENT_MODES == <<"continuous", "discrete">>
BLEND_MODES == <<"normal", "overlay", "soft-light", "screen">>
GRAIN_SIZES == <<"fine", "normal", "coarse">>
GRAIN_ALGORITHMS == <<"uniform", "gaussian", "value", "perlin", "fbm", "simplex",
                      "blue-noise", "poisson-stipple", "paper-fiber">>
INTENSITY_CURVES == <<"linear", "log", "s-curve">>
VIGNETTE_MODES == <<"multiply", "soft-light">>
OUTPUT_FORMATS == <<"png", "webp", "jpg">>

Range(seq) == {seq[i] : i \in 1..Len(seq)}

\* Array.prototype.indexOf, zero based; -1 when the value is not in the list.
IndexOf(list, val) ==
  IF \E i \in 1..Len(list) : val = Str(list[i])
  THEN (CHOOSE i \in 1..Len(list) : val = Str(list[i])) - 1
  ELSE -1

gradientTypeToInt(type) == IndexOf(GRADIENT_TYPES, type)
blendModeToInt(mode) == IndexOf(BLEND_MODES, mode)
grainSizeToInt(size) == IndexOf(GRAIN_SIZES, size)
grainAlgorithmToInt(name) == IndexOf(GRAIN_ALGORITHMS, name)
intensityCurveToInt(name) == IndexOf(INTENSITY_CURVES, name)

\* The enum fields of a snapshot, each with the list of its variants.
EnumFields ==
  { [path |-> <<"gradient", "type">>, variants |-> GRADIENT_TYPES],
    [path |-> <<"gradient", "mode">>, variants |-> GRADIENT_MODES],
    [path |-> <<"gradient", "blend">>, variants |-> BLEND_MODES],
    [path |-> <<"grain", "size">>, variants |-> GRAIN_SIZES],
    [path |-> <<"grain", "algorithm">>, variants |-> GRAIN_ALGORITHMS],
    [path |-> <<"grain", "intensityCurve">>, variants |-> INTENSITY_CURVES],
    [path |-> <<"vignette", "mode">>, variants |-> VIGNETTE_MODES],
    [path |-> <<"output", "format">>, variants |-> OUTPUT_FORMATS] }

\* The numeric fields with a declared range, in hundredths.
NumericFields ==
  { [path |-> <<"color", "saturation">>, min |-> 0, max |-> 100],
    [path |-> <<"color", "lightness">>, min |-> 0, max |-> 100],
    [path |-> <<"color", "gamma">>, min |-> 80, max |-> 220],
    [path |-> <<"gradient", "center", "x">>, min |-> 0, max |-> 100],
    [path |-> <<"gradient", "center", "y">>, min |-> 0, max |-> 100],
    [path |-> <<"grain", "amount">>, min |-> 0, max |-> 10000],
    [path |-> <<"grain", "chroma", "intensity">>, min |-> 0, max |-> 20],
    [path |-> <<"grain", "protectShadows">>, min |-> 0, max |-> 20],
    [path |-> <<"vignette", "strength">>, min |-> 0, max |-> 100],
    [path |-> <<"vignette", "feather">>, min |-> 0, max |-> 100],
    [path |-> <<"output", "jpgQuality">>, min |-> 60, max |-> 100] }

RECURSIVE GetPath(_, _)
GetPath(o, path) ==
  IF path = <<>> THEN o
  ELSE IF ~IsObj(o) THEN Undef
  ELSE GetPath(Get(o, Head(path)), Tail(path))

\* The object literal that holds val at the path and nothing else.
RECURSIVE Nest(_, _)
Nest(path, val) ==
  IF path = <<>> THEN val
  ELSE Obj(<< <<Head(path), Nest(Tail(path), val)>> >>)

\* A gradient stop as the control panel and a settings file write it.
Stop(pos, hueShift, lightnessDelta, opacity) ==
  Obj(<< <<"pos", Num(pos)>>, <<"hueShift", Num(hueShift)>>,
         <<"lightnessDelta", Num(lightnessDelta)>>, <<"opacity", Num(opacity)>> >>)

Stops(snapshot) == GetPath(snapshot, <<"gradient", "stops">>)

(***************************************************************************)
(* What a valid snapshot is: every section and field of the defaults, with *)
(* the defaults' types, known enum variants, numbers within their ranges   *)
(* and 1 to MAX_GRADIENT_STOPS gradient stops.                             *)
(***************************************************************************)
RECURSIVE Covers(_, _)
Covers(def, val) ==
  IF IsObj(def)
  THEN /\ IsObj(val)
       /\ \A i \in 1..Len(def.v) :
            /\ Has(val, def.v[i][1])
            /\ Covers(def.v[i][2], Get(val, def.v[i][1]))
  ELSE TRUE

RECURSIVE SameTypes(_, _)
SameTypes(def, val) ==
  IF IsObj(def)
  THEN /\ IsObj(val)
       /\ \A i \in 1..Len(def.v) :
            /\ Has(val, def.v[i][1])
            /\ SameTypes(def.v[i][2], Get(val, def.v[i][1]))
  ELSE val.t = def.t

EnumsKnown(snapshot) ==
  \A f \in EnumFields : IndexOf(f.variants, GetPath(snapshot, f.path)) >= 0

NumbersInRange(snapshot) ==
  \A f \in NumericFields :
    LET val == GetPath(snapshot, f.path)
    IN IsNum(val) /\ val.v >= f.min /\ val.v <= f.max

StopCountOk(snapshot) ==
  /\ IsArr(Stops(snapshot))
  /\ Len(Stops(snapshot).v) >= 1
  /\ Len(Stops(snapshot).v) <= MAX_GRADIENT_STOPS

ValidSnapshot(snapshot) ==
  /\ SameTypes(defaultState, snapshot)
  /\ EnumsKnown(snapshot)
  /\ NumbersInRange(snapshot)
  /\ StopCountOk(snapshot)
  /\ \A i \in 1..Len(Stops(snapshot).v) : IsObj(Stops(snapshot).v[i])

(***************************************************************************)
(* The raw inputs normalizeState is given: a parsed settings file, a       *)
(* decoded URL hash, a preset, a history entry.                            *)
(***************************************************************************)
MaxRawStops == 9
SeedInputs == {0, 1, 42, 1000, 65536}

StopList(n) == Arr([i \in 1..n |-> Stop(10 * (i - 1), 5 * i, 0, 100)])

RawShapes ==
  { Undef, Null, Obj(<<>>), Num(300), Bool(TRUE), Arr(<<>>),
    Arr(<<Num(100)>>),
    Obj(<< <<"palette", Str("note")>> >>),
    Obj(<< <<"note", Str("cafe_acute")>> >>),
    Obj(<< <<"gradient", Null>> >>),
    Obj(<< <<"gradient", Num(500)>> >>),
    Obj(<< <<"gradient", Str("linear")>> >>),
    Obj(<< <<"gradient", Arr(<<>>)>> >>),
    Obj(<< <<"gradient", Undef>> >>),
    Obj(<< <<"canvas", Bool(FALSE)>> >>),
    Obj(<< <<"output", Null>>, <<"random", Null>> >>),
    Nest(<<"gradient", "center">>, Null),
    Nest(<<"gradient", "center">>, Num(50)),
    Nest(<<"grain", "chroma">>, Bool(TRUE)),
    Nest(<<"grain", "chroma">>, Arr(<<Num(8)>>)),
    Nest(<<"gradient", "stops">>, Null),
    Nest(<<"gradient", "stops">>, Obj(<< <<"pos", Num(50)>> >>)),
    Nest(<<"color", "hue">>, Obj(<< <<"note", Num(100)>> >>)),
    Nest(<<"color", "hue">>, Str("bogus")),
    Nest(<<"output", "embedMetadata">>, Bool(FALSE)),
    Nest(<<"grain", "chroma", "enabled">>, Bool(FALSE)),
    Obj(<< <<"canvas", Obj(<< <<"width", Whole(2560)>>, <<"height", Whole(1440)>> >>)>>,
           <<"color", Obj(<< <<"hue", Whole(30)>> >>)>> >>) }

RawEnums ==
  UNION { { Nest(f.path, Str(val)) : val \in Range(f.variants) \cup {"bogus", "gif"} }
          : f \in EnumFields }

RawNumbers ==
  UNION { { Nest(f.path, Num(n)) : n \in {f.min - 1, f.min, f.max, f.max + 1, f.max + 50} }
          : f \in NumericFields }

RawStops == { Nest(<<"gradient", "stops">>, StopList(n)) : n \in 0..MaxRawStops }

RawSeeds == { Nest(<<"random", "seed">>, Whole(n)) : n \in SeedInputs }

RawInputs == RawShapes \cup RawEnums \cup RawNumbers \cup RawStops \cup RawSeeds

(***************************************************************************)
(* controls.js: the gradient stop buttons, on the panel's copy of the      *)
(* state.                                                                  *)
(***************************************************************************)
addGradientStop(state) ==
  IF Len(Stops(state).v) >= MAX_GRADIENT_STOPS THEN state
  ELSE Put2(state, "gradient", "stops",
            Arr(Append(Stops(state).v, Stop(50, 0, 0, 100))))

removeGradientStop(state, index) ==
  IF Len(Stops(state).v) <= 1 THEN state
  ELSE Put2(state, "gradient", "stops",
            Arr([k \in 1..(Len(Stops(state).v) - 1) |->
                   IF k < index THEN Stops(state).v[k] ELSE Stops(state).v[k + 1]]))

\* The stops a backend paints: the WebGL renderer uploads the first
\* MAX_GRADIENT_STOPS, the canvas gradient adds a colour stop for each.
webglStopCount(state) == Min(Len(Stops(state).v), MAX_GRADIENT_STOPS)
canvasStopCount(state) == Len(Stops(state).v)

(***************************************************************************)
(* The inputs of the application and the bounds on them.                   *)
(***************************************************************************)
MaxInputs == 1
MaxDownloads == 1

NineStops == Nest(<<"gradient", "stops">>, StopList(9))

\* The fragment the page is opened with.
BootHashes == {<<>>, encodeStateToUrl(normalizeState(Nest(<<"output", "format">>, Str("jpg"))))}

\* Fragments the user navigates to.
UserHashes == {encodeStateToUrl(normalizeState(NineStops)), <<1, 2>>}

\* The texts of the files the user imports.
ImportFiles ==
  { JSONstringify(Nest(<<"gradient", "stops">>, StopList(0))),
    JSONstringify(Nest(<<"grain", "chroma">>, Null)),
    JSONstringify(Nest(<<"output", "format">>, Str("gif"))),
    StrCodes("bogus") }

\* What the control panel can make of a state with one input.
PanelEdits(state) ==
  IF ~IsArr(Stops(state)) THEN {}
  ELSE {addGradientStop(state)}
       \cup {removeGradientStop(state, index) : index \in 1..Len(Stops(state).v)}
       \cup {Put2(state, "output", "format", Str(format)) : format \in Range(OUTPUT_FORMATS)}

RECURSIVE EditClosure(_, _)
EditClosure(states, n) ==
  IF n = 0 THEN states
  ELSE EditClosure(states \cup UNION {{normalizeState(e) : e \in PanelEdits(s)} : s \in states},
                   n - 1)

\* The states the inputs above can lead the application to, the fragments it
\* can see and the files it can read.  Their encodings, decodings and parses
\* are computed once, in three tables that main.js is handed with its record:
\* Encoded is encodeStateToUrl (which is also stateFingerprint), Decoded is
\* decodeStateFromUrl and Parsed is JSON.parse, each read from its table.
KnownStates ==
  EditClosure({defaultState}
              \cup {normalizeState(JSONparse(text).val) : text \in ImportFiles}
              \cup ({decodeStateFromUrl(h) : h \in BootHashes \cup UserHashes} \ {Null}),
              MaxInputs)

EncodeTable == {<<state, encodeStateToUrl(state)>> : state \in KnownStates}

KnownHashes == BootHashes \cup UserHashes \cup {p[2] : p \in EncodeTable}

DecodeTable == {<<h, decodeStateFromUrl(h)>> : h \in KnownHashes}

ParseTable == {<<text, JSONparse(text)>> : text \in ImportFiles}

Codec == [encode |-> EncodeTable, decode |-> DecodeTable, parse |-> ParseTable]

Encoded(m, state) == (CHOOSE p \in m.codec.encode : p[1] = state)[2]

Decoded(m, h) == (CHOOSE p \in m.codec.decode : p[1] = h)[2]

ParsedText(m, text) == (CHOOSE p \in m.codec.parse : p[1] = text)[2]

stateFingerprint(state) == encodeStateToUrl(state)

(***************************************************************************)
(* main.js.  The module's variables are the fields of one record, and each *)
(* function of the module is an operator from the record before the call   *)
(* to the record after it.  The renderer is seen from main.js: the exports *)
(* it has been asked for and has not settled.                              *)
(***************************************************************************)
NoCall == [fn |-> "none", busy |-> FALSE, result |-> "none"]

\* Reading a property of null or undefined throws: ControlPanel.render reads
\* the fields of every section, of gradient.center and of grain.chroma, and
\* calls slice on gradient.stops.
PanelRenders(state) ==
  /\ \A p \in { <<"canvas">>, <<"color">>, <<"gradient">>, <<"gradient", "center">>,
                <<"grain">>, <<"grain", "chroma">>, <<"vignette">>, <<"random">>,
                <<"output">> } : ~IsNullish(GetPath(state, p))
  /\ IsArr(Stops(state))

initState(m, urlHash) ==
  LET urlState == Decoded(m, urlHash)
  IN IF urlState # Null THEN urlState ELSE cloneState(defaultState)

updateState(m, nextState) == [m EXCEPT !.currentState = normalizeState(nextState)]

\* window.location.hash = encoded; a hashchange event is queued when the
\* fragment changes.
updateLocationHash(m, state) ==
  LET encoded == Encoded(m, state)
  IN [m EXCEPT !.locationHash = encoded,
               !.hashchangeQueued = IF encoded # m.locationHash THEN @ + 1 ELSE @]

\* debounce(..., 300): the call restarts the timer.
scheduleHashUpdate(m) == [m EXCEPT !.hashUpdateTimer = TRUE]

lastRenderMatchesCurrent(m) ==
  IF m.lastRenderResult = Null THEN FALSE
  ELSE m.lastRenderResult.fingerprint = Encoded(m, m.currentState)

\* The record it is called with is computed once.
updateDownloadAvailability(m) ==
  CHOOSE out \in {LET ready == ~before.renderDirty /\ lastRenderMatchesCurrent(before)
                  IN [before EXCEPT !.downloadButtonDisabled = before.isRendering \/ ~ready] :
                  before \in {m}} : TRUE

\* clearTimeout of the old handle, then a new 800 ms timer.
scheduleAutoRender(m) == [m EXCEPT !.autoRenderHandle = TRUE, !.autoRenderTimer = TRUE]

markRenderDirty(m) ==
  updateDownloadAvailability(scheduleAutoRender([m EXCEPT !.renderDirty = TRUE]))

setRenderButtonBusy(m, busy) ==
  updateDownloadAvailability([m EXCEPT !.renderButtonDisabled = busy])

\* performRender without the isRendering guard.
performRenderUnguarded(m, caller) ==
  IF ~m.renderer
  THEN [m EXCEPT !.lastCall = [fn |-> "performRender", busy |-> m.isRendering,
                               result |-> "false"]]
  ELSE LET m1 == IF m.autoRenderHandle
                 THEN [m EXCEPT !.autoRenderHandle = FALSE, !.autoRenderTimer = FALSE]
                 ELSE m
           m2 == updateDownloadAvailability(
                   setRenderButtonBusy([m1 EXCEPT !.isRendering = TRUE], TRUE))
           snapshot == cloneState(m2.currentState)
       IN [m2 EXCEPT !.exports = Append(@, [state |-> snapshot,
                                             fingerprint |-> Encoded(m, snapshot),
                                             caller |-> caller]),
                     !.lastCall = [fn |-> "performRender", busy |-> m.isRendering,
                                   result |-> "pending"]]

\* performRender up to its await: the record after the call, with the export
\* handed to renderer.renderToBlob when one is started.  lastCall notes whether
\* a render was in progress at the call and what the call returned ("pending"
\* until the export settles).
performRender(m, caller) ==
  IF ~m.renderer
  THEN [m EXCEPT !.lastCall = [fn |-> "performRender", busy |-> m.isRendering,
                               result |-> "false"]]
  ELSE IF m.isRendering
  THEN [m EXCEPT !.lastCall = [fn |-> "performRender", busy |-> TRUE,
                               result |-> "false"]]
  ELSE LET m1 == IF m.autoRenderHandle
                 THEN [m EXCEPT !.autoRenderHandle = FALSE, !.autoRenderTimer = FALSE]
                 ELSE m
           m2 == updateDownloadAvailability(
                   setRenderButtonBusy([m1 EXCEPT !.isRendering = TRUE], TRUE))
           snapshot == cloneState(m2.currentState)
       IN [m2 EXCEPT !.exports = Append(@, [state |-> snapshot,
                                             fingerprint |-> Encoded(m, snapshot),
                                             caller |-> caller]),
                     !.lastCall = [fn |-> "performRender", busy |-> FALSE,
                                   result |-> "pending"]]

\* The finally block.
performRenderFinally(m) ==
  updateDownloadAvailability(setRenderButtonBusy([m EXCEPT !.isRendering = FALSE], FALSE))

\* A failure branch that keeps the render marked clean.
performRenderRejectedClean(m, job) ==
  performRenderFinally(
    [m EXCEPT !.renderDirty = FALSE,
              !.lastCall = [fn |-> "performRender", busy |-> FALSE, result |-> "false"]])

\* performRender after the await, when renderToBlob resolved.
performRenderResolved(m, job) ==
  performRenderFinally(
    [m EXCEPT !.lastRenderResult = [state |-> job.state, fingerprint |-> job.fingerprint],
              !.renderDirty = FALSE,
              !.lastCall = [fn |-> "performRender", busy |-> FALSE, result |-> "true"]])

\* performRender after the await, when renderToBlob rejected.
performRenderRejected(m, job) ==
  performRenderFinally(
    [m EXCEPT !.renderDirty = TRUE,
              !.lastCall = [fn |-> "performRender", busy |-> FALSE, result |-> "false"]])

ensureRender(m, caller) ==
  IF ~m.renderDirty /\ lastRenderMatchesCurrent(m)
  THEN [m EXCEPT !.lastCall = [fn |-> "ensureRender", busy |-> m.isRendering,
                               result |-> "true"]]
  ELSE performRender(m, caller)

\* The download handler after its await.
RECURSIVE TemplateText(_)
\* `${val}`: the text a template literal gives a value
TemplateText(val) ==
  CASE val.t = "num" -> NumberToString(val.v)
    [] val.t = "str" -> StrCodes(val.v)
    [] val.t = "bool" -> IF val.v THEN <<116, 114, 117, 101>> ELSE <<102, 97, 108, 115, 101>>
    [] val.t = "null" -> <<110, 117, 108, 108>>
    [] val.t = "undef" -> <<117, 110, 100, 101, 102, 105, 110, 101, 100>>
    [] val.t = "arr" ->
         IF val.v = <<>> THEN <<>>
         ELSE (IF IsNullish(val.v[1]) THEN <<>> ELSE TemplateText(val.v[1])) \o
              (IF Len(val.v) = 1 THEN <<>> ELSE <<44>> \o TemplateText(Arr(Tail(val.v))))
    [] val.t = "obj" -> <<91, 111, 98, 106, 101, 99, 116, 32, 79, 98, 106, 101, 99, 116, 93>>

\* utils.js: `${width}x${height}`
formatDimension(width, height) == TemplateText(width) \o <<120>> \o TemplateText(height)

NoDownload == [blob |-> Null, filename |-> <<>>]

\* `wall_${formatDimension(width, height)}_${seed}.${extension}`
downloadFilename(state) ==
  LET extension == IF Get2(state, "output", "format") = Str("jpg") THEN Str("jpg")
                   ELSE Get2(state, "output", "format")
  IN <<119, 97, 108, 108, 95>>
       \o formatDimension(Get2(state, "canvas", "width"), Get2(state, "canvas", "height"))
       \o <<95>> \o TemplateText(Get2(state, "random", "seed"))
       \o <<46>> \o TemplateText(extension)

\* The download handler after ensureRender: downloadBlob(blob, filename) with
\* the blob and the snapshot of lastRenderResult.
downloadAfterRender(m, rendered) ==
  IF ~rendered THEN m
  ELSE IF m.lastRenderResult = Null THEN m
  ELSE [m EXCEPT !.downloads = @ + 1,
                 !.downloaded = [blob |-> m.lastRenderResult.state,
                                 filename |-> downloadFilename(m.lastRenderResult.state)]]

afterRender(m, caller, rendered) ==
  CASE caller = "bootstrap" -> updateLocationHash(m, m.currentState)
    [] caller = "download" -> downloadAfterRender(m, rendered)
    [] OTHER -> m

\* A call and, when it returned without waiting for an export, the caller's
\* continuation.
callThen(m, caller) ==
  IF m.lastCall.result = "pending" THEN m
  ELSE afterRender(m, caller, m.lastCall.result = "true")

bootstrap(m) ==
  LET m1 == [m EXCEPT !.currentState = initState(m, m.locationHash), !.renderer = TRUE]
      m2 == updateDownloadAvailability(m1)
      m3 == markRenderDirty(m2)
  IN callThen(ensureRender(m3, "bootstrap"), "bootstrap")

handleStateChange(m, nextState) ==
  scheduleHashUpdate(markRenderDirty(updateState(m, nextState)))

resetClick(m) ==
  scheduleHashUpdate(markRenderDirty([m EXCEPT !.currentState = cloneState(defaultState)]))

\* The change handler of the import input; the catch covers a file that is
\* not JSON and a state the control panel cannot show.
importJson(m, text) ==
  LET parsed == ParsedText(m, text)
      state == normalizeState(parsed.val)
      m1 == [m EXCEPT !.currentState = state]
  IN IF ~parsed.ok THEN m
     ELSE IF ~PanelRenders(state) THEN m1
     ELSE updateLocationHash(markRenderDirty(m1), state)

hashchange(m) ==
  LET state == Decoded(m, m.locationHash)
      m1 == [m EXCEPT !.currentState = state]
  IN IF ~m.renderer THEN m
     ELSE IF state = Null THEN m
     ELSE IF m.currentState # Null /\ Encoded(m, state) = Encoded(m, m.currentState)
     THEN m
     ELSE IF ~PanelRenders(state) THEN m1
     ELSE markRenderDirty(m1)

downloadClick(m) == callThen(ensureRender(m, "download"), "download")

(***************************************************************************)
(* The renderers.  renderer.js is the WebGL2 renderer with its inline      *)
(* Canvas2D fallback, unnamed/part_002 the Canvas2D renderer; build names  *)
(* the one the page loads.  A renderer is the record r of its fields and   *)
(* of its canvas: contextMode is the context mode of the preview canvas    *)
(* (a canvas that has given out a webgl2 context gives null for '2d').     *)
(* Zoom and offset are fixed point in hundredths, rounded to the nearest;  *)
(* pointer positions are fractions of the canvas's client size.            *)
(* supplied, lastFrame, lastRender and webglFailed are history fields.     *)
(***************************************************************************)
WebGLBuild == "renderer.js"
CanvasBuild == "part_002"

\* window.devicePixelRatio || 1
DPR == 1

\* Math.round of a fixed-point number, as a whole number.
Round(hundredths) == (hundredths + 50) \div 100

NoExport == [kind |-> "none"]
NoPointer == [x |-> -1, y |-> -1]
NoFrame == [needed |-> FALSE, rendered |-> FALSE, state |-> Undef, supplied |-> Undef]
NoRender == [kind |-> "none", backend |-> "none", afterFallback |-> FALSE]

\* The fallback is in place: a WebGL2 failure has been handled by init.
FellBack(r) == r.webglFailed /\ r.initPc = "done"

handleResize(r) ==
  LET canvas == Get(r.state, "canvas")
      width == Max(320, Round((Get(canvas, "width").v * Get(canvas, "previewScale").v) \div 100))
      height == Max(240, Round((Get(canvas, "height").v * Get(canvas, "previewScale").v) \div 100))
  IN [r EXCEPT !.canvasSize = [width |-> width * DPR, height |-> height * DPR],
               !.needsRender = TRUE]

clampPreviewOffset(r) ==
  LET zoom == Max(r.previewZoom, 1)
      width == Get2(r.state, "canvas", "width").v
      height == Get2(r.state, "canvas", "height").v
      viewWidth == (width * 100) \div zoom
      viewHeight == (height * 100) \div zoom
      limitX == Max(0, 50 - (viewWidth * 100) \div (2 * width))
      limitY == Max(0, 50 - (viewHeight * 100) \div (2 * height))
  IN [r EXCEPT !.previewOffset = [x |-> clamp(r.previewOffset.x, -limitX, limitX),
                                  y |-> clamp(r.previewOffset.y, -limitY, limitY)]]

\* Only the Canvas2D renderer's handlers call clampPreviewOffset.
ClampIfCanvasBuild(r) == IF r.build = CanvasBuild THEN clampPreviewOffset(r) ELSE r

wheel(r, deltaY) ==
  LET delta == IF deltaY > 0 THEN 105 ELSE 95
      zoomed == [r EXCEPT !.previewZoom = Min(Max(Round(r.previewZoom * delta), 50), 400)]
  IN [ClampIfCanvasBuild(zoomed) EXCEPT !.needsRender = TRUE]

pointerdown(r, point) == [r EXCEPT !.dragging = TRUE, !.lastPointer = point]
pointerup(r) == [r EXCEPT !.dragging = FALSE]
pointerleave(r) == [r EXCEPT !.dragging = FALSE]

pointermove(r, point) ==
  IF ~r.dragging \/ r.lastPointer = NoPointer THEN r
  ELSE LET dx == point.x - r.lastPointer.x
           dy == point.y - r.lastPointer.y
           moved == [r EXCEPT !.previewOffset = [x |-> r.previewOffset.x - dx,
                                                 y |-> r.previewOffset.y + dy],
                              !.lastPointer = point]
       IN [ClampIfCanvasBuild(moved) EXCEPT !.needsRender = TRUE]

rendererUpdateState(r, nextState) ==
  LET resized == handleResize([r EXCEPT !.state = cloneState(nextState),
                                        !.supplied = nextState])
  IN [ClampIfCanvasBuild(resized) EXCEPT !.needsRender = TRUE]

\* canvas.getContext('2d') on the preview canvas: TRUE when it gives a context.
PreviewContext2d(r) == r.contextMode # "webgl2"

\* renderCanvasFallback on the preview canvas reads ctx.fillStyle of a null
\* context and throws when the canvas has given out a webgl2 context.
renderPreviewThrows(r) == r.build = WebGLBuild /\ ~r.gl /\ ~PreviewContext2d(r)

renderPreview(r) ==
  IF r.build = WebGLBuild /\ r.gl
  THEN [r EXCEPT !.lastRender = [kind |-> "preview", backend |-> "webgl",
                                 afterFallback |-> FellBack(r)]]
  ELSE [r EXCEPT !.contextMode = "2d",
                 !.lastRender = [kind |-> "preview", backend |-> "canvas2d",
                                 afterFallback |-> FellBack(r)]]

\* One turn of the requestAnimationFrame loop.
loop(r) ==
  IF ~r.needsRender
  THEN [r EXCEPT !.lastFrame = [needed |-> FALSE, rendered |-> FALSE,
                                state |-> Undef, supplied |-> r.supplied]]
  ELSE IF renderPreviewThrows(r)
  THEN [r EXCEPT !.lastFrame = [needed |-> TRUE, rendered |-> FALSE,
                                state |-> Undef, supplied |-> r.supplied]]
  ELSE [renderPreview(r) EXCEPT !.needsRender = FALSE,
                                !.lastFrame = [needed |-> TRUE, rendered |-> TRUE,
                                               state |-> r.state,
                                               supplied |-> r.supplied]]

\* The rectangle of the rendered wallpaper that the preview shows: the source
\* rectangle of drawImage in the Canvas2D renderer, the range of uv over the
\* quad in the fragment shader (in hundredths of the unit square), and the
\* whole canvas in the inline fallback, which ignores zoom and offset.
Viewport(r) ==
  IF r.build = CanvasBuild
  THEN LET zoom == Max(r.previewZoom, 1)
           bufferWidth == Max(1, Round(Get2(r.state, "canvas", "width").v))
           bufferHeight == Max(1, Round(Get2(r.state, "canvas", "height").v))
           viewWidth == (bufferWidth * 100) \div zoom
           viewHeight == (bufferHeight * 100) \div zoom
           centerX == ((50 + r.previewOffset.x) * bufferWidth) \div 100
           centerY == ((50 + r.previewOffset.y) * bufferHeight) \div 100
       IN [sx |-> clamp(centerX - viewWidth \div 2, 0, Max(0, bufferWidth - viewWidth)),
           sy |-> clamp(centerY - viewHeight \div 2, 0, Max(0, bufferHeight - viewHeight)),
           viewWidth |-> viewWidth, viewHeight |-> viewHeight,
           width |-> bufferWidth, height |-> bufferHeight]
  ELSE IF r.gl
  THEN LET zoom == Max(r.previewZoom, 1)
       IN [sx |-> 50 - 5000 \div zoom + r.previewOffset.x,
           sy |-> 50 - 5000 \div zoom + r.previewOffset.y,
           viewWidth |-> 10000 \div zoom, viewHeight |-> 10000 \div zoom,
           width |-> 100, height |-> 100]
  ELSE [sx |-> 0, sy |-> 0,
        viewWidth |-> r.canvasSize.width, viewHeight |-> r.canvasSize.height,
        width |-> r.canvasSize.width, height |-> r.canvasSize.height]

ViewportInside(r) ==
  LET view == Viewport(r)
  IN /\ 0 <= view.sx /\ view.sx + view.viewWidth <= view.width
     /\ 0 <= view.sy /\ view.sy + view.viewHeight <= view.height

\* renderWebGLToBlob up to its await of canvas.toBlob.
renderWebGLToBlob(r, state) ==
  [r EXCEPT !.toBlob = [kind |-> "webgl", state |-> state,
                        prevState |-> cloneState(r.state),
                        prevCanvasSize |-> r.canvasSize,
                        prevOffset |-> r.previewOffset,
                        prevZoom |-> r.previewZoom],
            !.state = cloneState(state),
            !.previewOffset = [x |-> 0, y |-> 0],
            !.previewZoom = 100,
            !.canvasSize = [width |-> Round(Get2(state, "canvas", "width").v),
                            height |-> Round(Get2(state, "canvas", "height").v)],
            !.lastRender = [kind |-> "export", backend |-> "webgl",
                            afterFallback |-> FellBack(r)]]

\* renderCanvasToBlob up to its await: it paints a canvas of its own.
renderCanvasToBlob(r, state) ==
  [r EXCEPT !.toBlob = [kind |-> "canvas2d", state |-> state],
            !.lastRender = [kind |-> "export", backend |-> "canvas2d",
                            afterFallback |-> FellBack(r)]]

renderToBlob(r, state) ==
  IF r.build = WebGLBuild /\ r.gl THEN renderWebGLToBlob(r, state)
  ELSE renderCanvasToBlob(r, state)

\* After the await, when toBlob gave a blob.
renderToBlobResolved(r) ==
  IF r.toBlob.kind = "webgl"
  THEN handleResize([r EXCEPT !.canvasSize = r.toBlob.prevCanvasSize,
                              !.state = r.toBlob.prevState,
                              !.previewOffset = r.toBlob.prevOffset,
                              !.previewZoom = r.toBlob.prevZoom,
                              !.toBlob = NoExport])
  ELSE [r EXCEPT !.toBlob = NoExport]

\* After the await, when toBlob gave null: the promise rejects and the rest of
\* the function does not run.
renderToBlobRejected(r) == [r EXCEPT !.toBlob = NoExport]

\* The end of init: attachEvents, handleResize, startLoop.
initFinish(r) ==
  [handleResize(r) EXCEPT !.eventsAttached = TRUE, !.loopStarted = TRUE,
                          !.initPc = "done"]

\* The catch block of init with gl left in place.
initCatchKeepsGl(r) == [r EXCEPT !.warningShown = TRUE, !.webglFailed = TRUE]

\* The catch block of init.
initCatch(r) == [r EXCEPT !.gl = FALSE, !.warningShown = TRUE, !.webglFailed = TRUE]

\* The else branch of init: createContext gave null.
initNoContext(r) == [r EXCEPT !.warningShown = TRUE, !.webglFailed = TRUE]

\* The two constructors.  The Canvas2D renderer attaches its handlers and
\* starts its loop in the constructor; renderer.js leaves that to init, which
\* the constructor calls last.
WallpaperRenderer(which, initialState, context) ==
  LET fields ==
        [build |-> which, initPc |-> "init", gl |-> context,
         contextMode |-> IF which = CanvasBuild THEN "2d"
                         ELSE IF context THEN "webgl2" ELSE "none",
         warningShown |-> FALSE, eventsAttached |-> FALSE, loopStarted |-> FALSE,
         state |-> cloneState(initialState),
         canvasSize |-> [width |-> 300, height |-> 150],
         previewZoom |-> 100, previewOffset |-> [x |-> 0, y |-> 0],
         dragging |-> FALSE, lastPointer |-> NoPointer, needsRender |-> TRUE,
         toBlob |-> NoExport, supplied |-> initialState, lastFrame |-> NoFrame,
         lastRender |-> NoRender, webglFailed |-> FALSE]
  IN IF which = CanvasBuild THEN initFinish(fields) ELSE fields

(***************************************************************************)
(* Settings metadata in exported files (renderer.js and unnamed/part_002   *)
(* hold the same functions).  A blob is the sequence of its bytes; a       *)
(* 32-bit word is the sequence of its four bytes, most significant first.  *)
(* Offsets are those of the code, counted from 0.                          *)
(***************************************************************************)
RECURSIVE Xor(_, _)
\* a ^ b for naturals
Xor(a, b) ==
  IF a = 0 THEN b
  ELSE IF b = 0 THEN a
  ELSE 2 * Xor(a \div 2, b \div 2) + ((a + b) % 2)

Xor4(u, w) == <<Xor(u[1], w[1]), Xor(u[2], w[2]), Xor(u[3], w[3]), Xor(u[4], w[4])>>
\* w >>> 1 and w >>> 8
Shr1(w) ==
  <<w[1] \div 2, w[2] \div 2 + 128 * (w[1] % 2),
    w[3] \div 2 + 128 * (w[2] % 2), w[4] \div 2 + 128 * (w[3] % 2)>>
Shr8(w) == <<0, w[1], w[2], w[3]>>
\* 0xedb88320 and 0xffffffff
CrcPolynomial == <<237, 184, 131, 32>>
AllOnes == <<255, 255, 255, 255>>

RECURSIVE Crc32TableEntry(_, _)
\* The inner loop of createCrc32Table, from its j-th turn.
Crc32TableEntry(c, j) ==
  IF j = 8 THEN c
  ELSE Crc32TableEntry(IF c[4] % 2 = 1 THEN Xor4(CrcPolynomial, Shr1(c)) ELSE Shr1(c), j + 1)

CRC32_TABLE == [i \in 0..255 |-> Crc32TableEntry(<<0, 0, 0, i>>, 0)]

RECURSIVE Crc32Range(_, _, _, _)
\* The loop of crc32 over bytes[lo..hi], entered with the register c.
Crc32Range(bytes, lo, hi, c) ==
  IF lo > hi THEN c
  ELSE IF lo = hi THEN Xor4(CRC32_TABLE[Xor(c[4], bytes[lo])], Shr8(c))
  ELSE LET mid == (lo + hi) \div 2
       IN CHOOSE out \in {Crc32Range(bytes, mid + 1, hi, half) :
                             half \in {Crc32Range(bytes, lo, mid, c)}} : TRUE

crc32(bytes) == Xor4(Crc32Range(bytes, 1, Len(bytes), AllOnes), AllOnes)

\* DataView.setUint32(n), big-endian and little-endian
Uint32BE(n) == <<(n \div 16777216) % 256, (n \div 65536) % 256, (n \div 256) % 256, n % 256>>
Uint32LE(n) == <<n % 256, (n \div 256) % 256, (n \div 65536) % 256, (n \div 16777216) % 256>>
\* DataView.getUint32 at an offset
GetUint32(bytes, offset) ==
  bytes[offset + 1] * 16777216 + bytes[offset + 2] * 65536
    + bytes[offset + 3] * 256 + bytes[offset + 4]
\* bytes[i] as String.fromCharCode reads it: undefined gives the code 0
CharAt(bytes, i) == IF i < Len(bytes) THEN bytes[i + 1] ELSE 0
\* bytes.subarray(from, to): the ends are clamped to the array
Subarray(bytes, from, to) == SubSeq(bytes, Min(from, Len(bytes)) + 1, Min(to, Len(bytes)))

TypeTEXt == <<116, 69, 88, 116>>
TypeIEND == <<73, 69, 78, 68>>
TypeIHDR == <<73, 72, 68, 82>>
TypeIDAT == <<73, 68, 65, 84>>
TagRIFF == <<82, 73, 70, 70>>
TagWEBP == <<87, 69, 66, 80>>
TagXMP == <<88, 77, 80, 32>>
\* 'settings\x00'
Keyword == <<115, 101, 116, 116, 105, 110, 103, 115, 0>>
PngSignature == <<137, 80, 78, 71, 13, 10, 26, 10>>

\* The tEXt chunk embedPngMetadata builds for a text.
TextChunk(text) ==
  LET data == Keyword \o Utf8Encode(text)
      typed == TypeTEXt \o data
  IN Uint32BE(Len(data)) \o typed \o crc32(typed)

RECURSIVE FindIEND(_, _)
\* The loop of embedPngMetadata from an offset: the offset it ends at, or that
\* the DataView constructor throws a RangeError past the end of the buffer.
FindIEND(bytes, offset) ==
  IF offset >= Len(bytes) THEN [threw |-> FALSE, offset |-> offset]
  ELSE IF offset + 4 > Len(bytes) THEN [threw |-> TRUE, offset |-> offset]
  ELSE IF <<CharAt(bytes, offset + 4), CharAt(bytes, offset + 5),
            CharAt(bytes, offset + 6), CharAt(bytes, offset + 7)>> = TypeIEND
  THEN [threw |-> FALSE, offset |-> offset]
  ELSE FindIEND(bytes, offset + 12 + GetUint32(bytes, offset))

\* The chunk put after the IEND chunk instead of before it.
embedPngMetadataAfterEnd(bytes, text) ==
  [threw |-> FindIEND(bytes, 8).threw, bytes |-> bytes \o TextChunk(text)]

\* result.set(chunk, offset) throws a RangeError when the chunk does not fit.
embedPngMetadata(bytes, text) ==
  LET chunk == TextChunk(text)
      found == FindIEND(bytes, 8)
  IN IF found.threw \/ found.offset > Len(bytes)
     THEN [threw |-> TRUE, bytes |-> bytes]
     ELSE [threw |-> FALSE,
           bytes |-> Subarray(bytes, 0, found.offset) \o chunk
                       \o Subarray(bytes, found.offset, Len(bytes))]

embedWebpMetadata(bytes, text) ==
  IF Len(bytes) < 12 \/ SubSeq(bytes, 1, 4) # TagRIFF
  THEN [threw |-> FALSE, bytes |-> bytes]
  ELSE LET payload == Utf8Encode(text)
           padding == IF Len(payload) % 2 = 1 THEN <<0>> ELSE <<>>
           result == bytes \o TagXMP \o Uint32LE(Len(payload)) \o payload \o padding
       IN [threw |-> FALSE,
           bytes |-> SubSeq(result, 1, 4) \o Uint32LE(Len(result) - 8)
                       \o SubSeq(result, 9, Len(result))]

\* JavaScript truthiness of a value
Truthy(val) ==
  CASE val.t = "bool" -> val.v
    [] val.t = "num" -> val.v # 0
    [] val.t = "str" -> val.v # ""
    [] val.t \in {"null", "undef"} -> FALSE
    [] OTHER -> TRUE

\* maybeEmbedMetadata without its try blocks.
maybeEmbedMetadataUncaught(bytes, format, state) ==
  IF ~Truthy(Get2(state, "output", "embedMetadata"))
  THEN [rejected |-> FALSE, threw |-> FALSE, bytes |-> bytes]
  ELSE LET embedded ==
             IF format = "png" THEN embedPngMetadata(bytes, JSONstringify(state))
             ELSE IF format = "webp" THEN embedWebpMetadata(bytes, JSONstringify(state))
             ELSE [threw |-> FALSE, bytes |-> bytes]
       IN [rejected |-> embedded.threw, threw |-> embedded.threw, bytes |-> embedded.bytes]

\* The promise maybeEmbedMetadata returns: rejected or not, the bytes of the
\* blob it resolves with, and whether an embedding function threw.
maybeEmbedMetadata(bytes, format, state) ==
  IF ~Truthy(Get2(state, "output", "embedMetadata"))
  THEN [rejected |-> FALSE, threw |-> FALSE, bytes |-> bytes]
  ELSE LET embedded ==
             IF format = "png" THEN embedPngMetadata(bytes, JSONstringify(state))
             ELSE IF format = "webp" THEN embedWebpMetadata(bytes, JSONstringify(state))
             ELSE [threw |-> FALSE, bytes |-> bytes]
       IN IF embedded.threw
          THEN [rejected |-> FALSE, threw |-> TRUE, bytes |-> bytes]
          ELSE [rejected |-> FALSE, threw |-> FALSE, bytes |-> embedded.bytes]

(***************************************************************************)
(* What a render draws.  A picture is the list of the passes that ran,     *)
(* each with the values its drawing depends on (the arguments of the       *)
(* canvas calls, the uniforms the shader reads), so two pictures are equal *)
(* when the same passes drew from the same values.  The painter is the     *)
(* renderer object with the fields painting reads and writes.              *)
(***************************************************************************)
Op(pass, args) == [pass |-> pass, draw |-> Arr(args)]
Text(codes) == [t |-> "text", v |-> codes]
NumClamp(val, lo, hi) == Num(clamp(val.v, lo, hi))
\* val ?? other
Coalesce(val, other) == IF IsNullish(val) THEN other ELSE val

\* state.gradient?.type === 'none' ? 'flat' : state.gradient?.type
GradientTypeOf(state) ==
  IF Get2(state, "gradient", "type") = Str("none") THEN Str("flat")
  ELSE Get2(state, "gradient", "type")
GradientActive(state) ==
  Get2(state, "gradient", "enabled") # Bool(FALSE) /\ GradientTypeOf(state) # Str("flat")

getGradientPalette(state) ==
  LET color == Get(state, "color")
      palette == Coalesce(Get2(state, "gradient", "palette"), Obj(<<>>))
      Pick(k) == IF IsNum(Get(palette, k)) THEN Get(palette, k) ELSE Get(color, k)
  IN IF GradientTypeOf(state) = Str("flat")
     THEN Obj(<< <<"hue", Get(color, "hue")>>,
                 <<"saturation", NumClamp(Get(color, "saturation"), 0, 100)>>,
                 <<"lightness", NumClamp(Get(color, "lightness"), 0, 100)>> >>)
     ELSE Obj(<< <<"hue", Pick("hue")>>,
                 <<"saturation", NumClamp(Pick("saturation"), 0, 100)>>,
                 <<"lightness", NumClamp(Pick("lightness"), 0, 100)>> >>)

mapBlendToComposite(mode) ==
  IF mode \in {Str("overlay"), Str("soft-light"), Str("screen")} THEN mode
  ELSE Str("source-over")

\* The hsla() colour of a stop: hue, saturation, lightness, opacity.
resolveStopColor(stop, palette) ==
  Arr(<< Num((Get(palette, "hue").v + Get(stop, "hueShift").v + 36000) % 36000),
         NumClamp(Get(palette, "saturation"), 0, 100),
         NumClamp(Num(Get(palette, "lightness").v + Get(stop, "lightnessDelta").v), 0, 100),
         NumClamp(Get(stop, "opacity"), 0, 100) >>)

\* part_002: the gradient object, or null.  It is described by its kind, the
\* values its geometry is computed from, and its colour stops.
createCanvasGradient(width, height, gradientState, palette) ==
  LET stops == Coalesce(Get(gradientState, "stops"), Arr(<<>>))
      type == IF Get(gradientState, "type") = Str("none") THEN Str("flat")
              ELSE Get(gradientState, "type")
      center == Get(gradientState, "center")
      geometry ==
        CASE type = Str("linear") -> <<Get(gradientState, "angle"), width, height>>
          [] type = Str("radial") -> <<center, Get(gradientState, "scale"), width, height>>
          [] type = Str("conic") ->
               <<Coalesce(Get(gradientState, "angle"), Num(0)), center, width, height>>
          [] type = Str("corner-glow") ->
               <<NumClamp(Get(center, "x"), 0, 100), NumClamp(Get(center, "y"), 0, 100),
                 width, height>>
          [] OTHER -> <<>>
      colorStops ==
        [i \in 1..Len(stops.v) |->
           Arr(<<Get(stops.v[i], "pos"), resolveStopColor(stops.v[i], palette)>>)]
  IN IF stops.v = <<>> \/ type = Str("flat") THEN Null
     ELSE IF type \notin {Str("linear"), Str("radial"), Str("conic"), Str("corner-glow")}
     THEN Null
     ELSE Arr(<<type, Arr(geometry), Bool(Get(gradientState, "mode") = Str("discrete")),
                Arr(colorStops)>>)

\* part_002: the drawing of the variant layer; the classic variant and a
\* strength of 0 draw nothing.
applyShaderVariantFallback(width, height, state, palette) ==
  LET rendering == Get(state, "rendering")
      variant == IF Truthy(Get(rendering, "shader")) THEN Get(rendering, "shader")
                 ELSE Str("classic")
      strength == NumClamp(Coalesce(Get(rendering, "shaderStrength"), Num(0)), 0, 100)
  IN IF Get(rendering, "enabled") = Bool(FALSE) THEN <<>>
     ELSE IF variant = Str("classic") \/ strength.v <= 0 THEN <<>>
     ELSE IF variant \in {Str("lumina"), Str("nocturne"), Str("ember")}
     THEN <<Op("variant", <<variant, strength, palette, Get2(state, "gradient", "center"),
                            width, height>>)>>
     ELSE <<>>

applyVignette(width, height, vignetteState) ==
  LET strength == NumClamp(Coalesce(Get(vignetteState, "strength"), Num(0)), 0, 100)
  IN IF Get(vignetteState, "enabled") = Bool(FALSE) THEN <<>>
     ELSE IF strength.v <= 0 THEN <<>>
     ELSE <<Op("vignette",
               <<strength,
                 NumClamp(Coalesce(Get(vignetteState, "radius"), Num(80)), 10, 200),
                 NumClamp(Coalesce(Get(vignetteState, "feather"), Num(50)), 1, 100),
                 Bool(Get(vignetteState, "mode") = Str("soft-light")),
                 width, height>>)>>

\* value.toString() for a number, the value itself otherwise; join('|') writes
\* null and undefined as the empty text.
KeyPart(val) == IF IsNullish(val) THEN <<>> ELSE TemplateText(val)
RECURSIVE Join(_)
Join(parts) ==
  IF Len(parts) = 0 THEN <<>>
  ELSE IF Len(parts) = 1 THEN KeyPart(parts[1])
  ELSE KeyPart(parts[1]) \o <<124>> \o Join(Tail(parts))

\* The key without the seed.
createGrainCacheKeyUnseeded(width, height, grainState, paletteLightness, seed) ==
  LET chroma == Coalesce(Get(grainState, "chroma"), Obj(<<>>))
  IN Text(Join(<<
       width, height,
       NumClamp(Coalesce(Get(grainState, "amount"), Num(0)), 0, 10000),
       Coalesce(Get(grainState, "size"), Str("normal")),
       Coalesce(Get(grainState, "algorithm"), Str("uniform")),
       Coalesce(Get(grainState, "octaves"), Whole(1)),
       Coalesce(Get(grainState, "lacunarity"), Whole(2)),
       Coalesce(Get(grainState, "gain"), Num(50)),
       IF Truthy(Get(chroma, "enabled")) THEN Whole(1) ELSE Whole(0),
       Coalesce(Get(chroma, "intensity"), Num(0)),
       Coalesce(Get(grainState, "intensityCurve"), Str("linear")),
       Coalesce(Get(grainState, "protectShadows"), Num(0)),
       paletteLightness >>))

createGrainCacheKey(width, height, grainState, paletteLightness, seed) ==
  LET chroma == Coalesce(Get(grainState, "chroma"), Obj(<<>>))
  IN Text(Join(<<
       width, height, seed,
       NumClamp(Coalesce(Get(grainState, "amount"), Num(0)), 0, 10000),
       Coalesce(Get(grainState, "size"), Str("normal")),
       Coalesce(Get(grainState, "algorithm"), Str("uniform")),
       Coalesce(Get(grainState, "octaves"), Whole(1)),
       Coalesce(Get(grainState, "lacunarity"), Whole(2)),
       Coalesce(Get(grainState, "gain"), Num(50)),
       IF Truthy(Get(chroma, "enabled")) THEN Whole(1) ELSE Whole(0),
       Coalesce(Get(chroma, "intensity"), Num(0)),
       Coalesce(Get(grainState, "intensityCurve"), Str("linear")),
       Coalesce(Get(grainState, "protectShadows"), Num(0)),
       paletteLightness >>))

\* unnamed/part_001: null, or the grain image, described by the values every
\* one of its pixels is computed from.
generateGrainData(width, height, grainState, baseLightness, seed) ==
  LET amount == NumClamp(Coalesce(Get(grainState, "amount"), Num(0)), 0, 10000)
      chroma == Get(grainState, "chroma")
  IN IF IsNullish(grainState) \/ Get(grainState, "enabled") = Bool(FALSE) THEN Null
     ELSE IF amount.v <= 0 THEN Null
     ELSE Arr(<<
       width, height, amount,
       Coalesce(Get(grainState, "algorithm"), Str("uniform")),
       Coalesce(Get(grainState, "size"), Str("normal")),
       Num(Max(100, 100 * (Coalesce(Get(grainState, "octaves"), Whole(1)).v \div 100))),
       NumClamp(Coalesce(Get(grainState, "lacunarity"), Whole(2)), 100, 400),
       NumClamp(Coalesce(Get(grainState, "gain"), Num(50)), 10, 100),
       Coalesce(Get(grainState, "intensityCurve"), Str("linear")),
       Bool(Truthy(Coalesce(Get(chroma, "enabled"), Bool(FALSE)))),
       NumClamp(Coalesce(Get(chroma, "intensity"), Num(0)), 0, 50),
       NumClamp(Coalesce(Get(grainState, "protectShadows"), Num(0)), 0, 40),
       NumClamp(Coalesce(baseLightness, Num(50)), 0, 100),
       seed >>)

\* part_002 applyNoise: the painter afterwards, what was drawn, whether grain
\* data was generated, and the cache key computed.
applyNoise(p, width, height, state) ==
  LET amount == NumClamp(Get2(state, "grain", "amount"), 0, 10000)
      palette == getGradientPalette(state)
      paletteLightness ==
        NumClamp(IF GradientActive(state) THEN Get(palette, "lightness")
                 ELSE Get2(state, "color", "lightness"), 0, 100)
      cacheKey == createGrainCacheKey(width, height, Get(state, "grain"), paletteLightness,
                                      Get2(state, "random", "seed"))
      grainData == generateGrainData(width, height, Get(state, "grain"), paletteLightness,
                                     Get2(state, "random", "seed"))
      none == [p |-> p, ops |-> <<>>, generated |-> FALSE, key |-> Null]
  IN IF Get2(state, "grain", "enabled") = Bool(FALSE) THEN none
     ELSE IF amount.v <= 0 THEN none
     ELSE IF p.noiseCacheKey # cacheKey
     THEN IF grainData = Null THEN [none EXCEPT !.key = cacheKey]
          ELSE [p |-> [p EXCEPT !.noiseCanvas = grainData, !.noiseCacheKey = cacheKey],
                ops |-> <<Op("grain", <<grainData, width, height>>)>>,
                generated |-> TRUE, key |-> cacheKey]
     ELSE [p |-> p, ops |-> <<Op("grain", <<p.noiseCanvas, width, height>>)>>,
           generated |-> FALSE, key |-> cacheKey]

\* part_002 paintWallpaper: the painter afterwards and the passes drawn.
paintWallpaper(p, width, height, state) ==
  LET palette == getGradientPalette(state)
      gradient ==
        createCanvasGradient(width, height,
                             Put(Get(state, "gradient"), "type", GradientTypeOf(state)),
                             palette)
      base == Op("base", <<Get2(state, "color", "hue"), Get2(state, "color", "saturation"),
                           Get2(state, "color", "lightness"), width, height>>)
      gradientOps ==
        IF GradientActive(state) /\ gradient # Null
        THEN <<Op("gradient", <<mapBlendToComposite(Get2(state, "gradient", "blend")),
                                gradient, width, height>>)>>
        ELSE <<>>
      noise == applyNoise(p, width, height, state)
  IN [p |-> noise.p,
      passes |-> <<base>> \o gradientOps
                   \o applyShaderVariantFallback(width, height, state, palette)
                   \o noise.ops
                   \o applyVignette(width, height, Get(state, "vignette")),
      generated |-> noise.generated, key |-> noise.key]


\* part_002 renderCanvasToBlob up to its await: a canvas of the snapshot's
\* size is painted from a clone of the snapshot.
paintCanvasToBlob(p, state) ==
  LET width == Get2(state, "canvas", "width")
      height == Get2(state, "canvas", "height")
      painted == paintWallpaper(p, width, height, cloneState(state))
  IN [p |-> painted.p, size |-> <<width, height>>, view |-> <<>>,
      passes |-> painted.passes, generated |-> painted.generated, key |-> painted.key]

\* part_002 renderCanvas with options.preview: the buffer canvas is repainted
\* when it is dirty or changes size, and the view is drawn from it.
renderCanvasPreview(p) ==
  LET width == Num(Max(100, 100 * Round(Get2(p.state, "canvas", "width").v)))
      height == Num(Max(100, 100 * Round(Get2(p.state, "canvas", "height").v)))
      resized == p.bufferSize # <<width, height>>
      dirty == p.wallpaperDirty \/ resized
      painted == paintWallpaper(p, width, height, p.state)
      after == IF dirty
               THEN [painted.p EXCEPT !.bufferSize = <<width, height>>,
                                      !.buffer = painted.passes,
                                      !.wallpaperDirty = FALSE]
               ELSE p
  IN [p |-> after, size |-> <<width, height>>,
      view |-> <<p.previewZoom, p.previewOffset>>,
      passes |-> IF dirty THEN painted.passes ELSE <<>>,
      generated |-> dirty /\ painted.generated,
      key |-> IF dirty THEN painted.key ELSE Null]

\* renderer.js seedToFloat: seed % 2147483647
seedToFloat(seed) == Num(100 * ((seed.v \div 100) % 2147483647) + (seed.v % 100))

\* renderer.js renderWebGL: the uniforms it uploads.  The shader variant and
\* gradient base uniforms of shaders.js are never uploaded and stay 0.
renderWebGL(p, width, height) ==
  LET state == p.state
      stops == SubSeq(Stops(state).v, 1, Min(Len(Stops(state).v), MAX_GRADIENT_STOPS))
  IN [viewport |-> <<width, height>>,
      uResolution |-> <<Get2(state, "canvas", "width"), Get2(state, "canvas", "height")>>,
      uPreviewOffset |-> p.previewOffset,
      uPreviewZoom |-> p.previewZoom,
      uHue |-> Get2(state, "color", "hue"),
      uSaturation |-> Get2(state, "color", "saturation"),
      uLightness |-> Get2(state, "color", "lightness"),
      uGamma |-> Get2(state, "color", "gamma"),
      uShaderVariant |-> Whole(0),
      uShaderStrength |-> Whole(0),
      uGradientType |-> Whole(gradientTypeToInt(Get2(state, "gradient", "type"))),
      uGradientMode |-> Bool(Get2(state, "gradient", "mode") = Str("discrete")),
      uGradientAngle |-> Get2(state, "gradient", "angle"),
      uGradientCenter |-> Get2(state, "gradient", "center"),
      uGradientScale |-> Get2(state, "gradient", "scale"),
      uGradientBase |-> Arr(<<Whole(0), Whole(0), Whole(0)>>),
      uBlendMode |-> Whole(blendModeToInt(Get2(state, "gradient", "blend"))),
      uGradientStopCount |-> Whole(Min(Len(Stops(state).v), MAX_GRADIENT_STOPS)),
      uStopPositions |-> Arr([i \in 1..Len(stops) |-> Get(stops[i], "pos")]),
      uStopAdjustments |->
        Arr([i \in 1..Len(stops) |->
               Arr(<<Get(stops[i], "hueShift"), Get(stops[i], "lightnessDelta"),
                     Get(stops[i], "opacity"), Whole(0)>>)]),
      uNoiseAmount |-> Get2(state, "grain", "amount"),
      uNoiseSize |-> Whole(grainSizeToInt(Get2(state, "grain", "size"))),
      uNoiseAlgorithm |-> Whole(grainAlgorithmToInt(Get2(state, "grain", "algorithm"))),
      uNoiseOctaves |-> Get2(state, "grain", "octaves"),
      uNoiseLacunarity |-> Get2(state, "grain", "lacunarity"),
      uNoiseGain |-> Get2(state, "grain", "gain"),
      uChromaEnabled |-> Bool(Truthy(Get(Get2(state, "grain", "chroma"), "enabled"))),
      uChromaIntensity |-> Get(Get2(state, "grain", "chroma"), "intensity"),
      uIntensityCurve |-> Whole(intensityCurveToInt(Get2(state, "grain", "intensityCurve"))),
      uProtectShadows |-> Get2(state, "grain", "protectShadows"),
      uSeed |-> seedToFloat(Get2(state, "random", "seed")),
      uTime |-> Whole(p.now),
      uVignetteStrength |-> Get2(state, "vignette", "strength"),
      uVignetteRadius |-> Get2(state, "vignette", "radius"),
      uVignetteFeather |-> Get2(state, "vignette", "feather"),
      uVignetteRoundness |-> Get2(state, "vignette", "roundness"),
      uVignetteMode |-> Bool(Get2(state, "vignette", "mode") = Str("soft-light")),
      uApplyDither |-> Bool(Get2(state, "output", "format") = Str("jpg")),
      uHasBlueNoise |-> Bool(p.blueNoiseTexture)]

\* shaders.js main: the passes in the order of its statements, each with the
\* uniforms the functions it calls read.  uTime is declared and never read.
fragmentMain(u) ==
  LET view == Arr(<<u.uPreviewZoom, Arr(<<u.uPreviewOffset[1], u.uPreviewOffset[2]>>),
                    Arr(<<u.viewport[1], u.viewport[2]>>)>>)
      resolution == Arr(<<u.uResolution[1], u.uResolution[2]>>)
  IN << Op("base", <<u.uHue, u.uSaturation, u.uLightness>>),
        Op("gradient", <<view, u.uGradientType, u.uGradientMode, u.uGradientAngle,
                         u.uGradientCenter, u.uGradientScale, u.uGradientBase,
                         u.uGradientStopCount, u.uStopPositions, u.uStopAdjustments,
                         u.uBlendMode>>),
        Op("variant", <<u.uShaderVariant, u.uShaderStrength, u.uGradientBase>>),
        Op("grain", <<view, resolution, u.uNoiseSize, u.uNoiseAlgorithm, u.uNoiseOctaves,
                      u.uNoiseLacunarity, u.uNoiseGain, u.uHasBlueNoise, u.uSeed,
                      u.uNoiseAmount, u.uIntensityCurve, u.uProtectShadows,
                      u.uChromaEnabled, u.uChromaIntensity>>),
        Op("vignette", <<view, resolution, u.uVignetteStrength, u.uVignetteRadius,
                         u.uVignetteFeather, u.uVignetteRoundness, u.uVignetteMode>>) >>
     \o (IF u.uApplyDither.v THEN <<Op("dither", <<view>>)>> ELSE <<>>)
     \o << Op("gamma", <<u.uGamma>>) >>

\* renderer.js createCanvasGradient: linear, or radial for every other type;
\* the stops are coloured from state.color.
createCanvasGradientFallback(width, height, gradientState, colorState) ==
  LET stops == Get(gradientState, "stops").v
  IN Arr(<< IF Get(gradientState, "type") = Str("linear")
            THEN Arr(<<Str("linear"), Get(gradientState, "angle"), width, height>>)
            ELSE Arr(<<Str("radial"), Get(gradientState, "center"),
                       Get(gradientState, "scale"), width, height>>),
            Arr([i \in 1..Len(stops) |->
                   Arr(<<Get(stops[i], "pos"),
                         Num((Get(colorState, "hue").v + Get(stops[i], "hueShift").v + 36000)
                               % 36000),
                         Get(colorState, "saturation"),
                         NumClamp(Num(Get(colorState, "lightness").v
                                        + Get(stops[i], "lightnessDelta").v), 0, 100),
                         Get(stops[i], "opacity")>>)]) >>)

\* renderer.js renderCanvasFallback: base fill, gradient, specks placed by
\* createPrng(seed), vignette.
renderCanvasFallback(width, height, state) ==
  LET \* Math.floor(width * height * (amount / 5000)), the area taken to the
      \* thousand pixels
      samples == ((((width.v \div 100) * (height.v \div 100)) \div 1000)
                    * Get2(state, "grain", "amount").v) \div 500
  IN << Op("base", <<Get2(state, "color", "hue"), Get2(state, "color", "saturation"),
                     Get2(state, "color", "lightness"), width, height>>) >>
     \o (IF Get2(state, "gradient", "type") # Str("none")
         THEN <<Op("gradient",
                   <<mapBlendToComposite(Get2(state, "gradient", "blend")),
                     createCanvasGradientFallback(width, height, Get(state, "gradient"),
                                                  Get(state, "color"))>>)>>
         ELSE <<>>)
     \o (IF samples > 0
         THEN <<Op("grain", <<Get2(state, "random", "seed"), Whole(samples), width, height>>)>>
         ELSE <<>>)
     \o << Op("vignette", <<Get2(state, "vignette", "strength"), width, height>>) >>

\* An export that renders with the preview's pan and zoom.
paintWebGLToBlobKeepsView(p, state) ==
  [p |-> p,
   size |-> <<Get2(state, "canvas", "width"), Get2(state, "canvas", "height")>>,
   view |-> <<>>,
   passes |-> fragmentMain(renderWebGL([p EXCEPT !.state = cloneState(state)],
                                       Get2(state, "canvas", "width"),
                                       Get2(state, "canvas", "height"))),
   generated |-> FALSE, key |-> Null]

\* renderer.js renderWebGLToBlob: the render under the snapshot, with pan and
\* zoom reset; state, pan and zoom are put back after the await.
paintWebGLToBlob(p, state) ==
  [p |-> p,
   size |-> <<Get2(state, "canvas", "width"), Get2(state, "canvas", "height")>>,
   view |-> <<>>,
   passes |-> fragmentMain(renderWebGL([p EXCEPT !.state = cloneState(state),
                                                 !.previewOffset = <<Num(0), Num(0)>>,
                                                 !.previewZoom = Num(100)],
                                       Get2(state, "canvas", "width"),
                                       Get2(state, "canvas", "height"))),
   generated |-> FALSE, key |-> Null]

\* renderer.js renderCanvasToBlob up to its await
paintFallbackToBlob(p, state) ==
  [p |-> p,
   size |-> <<Get2(state, "canvas", "width"), Get2(state, "canvas", "height")>>,
   view |-> <<>>,
   passes |-> renderCanvasFallback(Get2(state, "canvas", "width"),
                                   Get2(state, "canvas", "height"), cloneState(state)),
   generated |-> FALSE, key |-> Null]

\* The size handleResize gives the preview canvas.
PreviewSize(state) ==
  LET canvas == Get(state, "canvas")
  IN << Whole(DPR * Max(320, Round((Get(canvas, "width").v * Get(canvas, "previewScale").v)
                                     \div 100))),
        Whole(DPR * Max(240, Round((Get(canvas, "height").v * Get(canvas, "previewScale").v)
                                     \div 100))) >>

\* renderPreview of either build
paintPreview(p) ==
  IF p.build = CanvasBuild THEN renderCanvasPreview(p)
  ELSE [p |-> p, size |-> PreviewSize(p.state),
        view |-> <<>>,
        passes |-> IF p.gl
                   THEN fragmentMain(renderWebGL(p, PreviewSize(p.state)[1],
                                                 PreviewSize(p.state)[2]))
                   ELSE renderCanvasFallback(PreviewSize(p.state)[1],
                                             PreviewSize(p.state)[2], p.state),
        generated |-> FALSE, key |-> Null]

\* renderToBlob of either build
paintToBlob(p, state) ==
  IF p.build = CanvasBuild THEN paintCanvasToBlob(p, state)
  ELSE IF p.gl THEN paintWebGLToBlob(p, state)
  ELSE paintFallbackToBlob(p, state)

\* updateState as far as painting goes: part_002 marks the buffer dirty and
\* forgets the key of the grain cache.
paintUpdateState(p, nextState) ==
  IF p.build = CanvasBuild
  THEN [p EXCEPT !.state = cloneState(nextState), !.wallpaperDirty = TRUE,
                 !.noiseCacheKey = Null]
  ELSE [p EXCEPT !.state = cloneState(nextState)]

\* The constructor, with a WebGL2 context or without.
Painter(which, context, initialState) ==
  [build |-> which, gl |-> which = WebGLBuild /\ context,
   blueNoiseTexture |-> which = WebGLBuild /\ context,
   state |-> cloneState(initialState),
   previewZoom |-> Num(100), previewOffset |-> <<Num(0), Num(0)>>,
   noiseCacheKey |-> Null, noiseCanvas |-> Null,
   wallpaperDirty |-> TRUE, bufferSize |-> <<>>, buffer |-> <<>>, now |-> 0]

(***************************************************************************)
(* The state.  input .. step belong to the state functions applied to one  *)
(* input; currentState .. inputs are main.js and the page around it;       *)
(* build .. rendererEvents are one WallpaperRenderer and its canvas.       *)
(***************************************************************************)
VARIABLES input, normalized, reparsed, fragment, decoded, step,
          currentState, renderer, lastRenderResult, renderDirty, isRendering,
          autoRenderHandle, autoRenderTimer, hashUpdateTimer,
          renderButtonDisabled, downloadButtonDisabled, locationHash,
          hashchangeQueued, exports, downloads, downloaded, lastCall, lastEvent,
          inputs,
          build, initPc, gl, contextMode, warningShown, eventsAttached,
          loopStarted, rendererState, canvasSize, previewZoom, previewOffset,
          dragging, lastPointer, needsRender, toBlob, supplied, lastFrame,
          lastRender, webglFailed, rendererEvent, rendererEvents,
          blob, exportFormat, metaState, metaText, metaResult, metaStep,
          painter, lastPaint, grainOrigin, updatedSincePaint, exported, paintEvents,
          shade,
          heap, history, refs, historyEvents

vars == <<input, normalized, reparsed, fragment, decoded, step,
          currentState, renderer, lastRenderResult, renderDirty, isRendering,
          autoRenderHandle, autoRenderTimer, hashUpdateTimer,
          renderButtonDisabled, downloadButtonDisabled, locationHash,
          hashchangeQueued, exports, downloads, downloaded, lastCall, lastEvent,
          inputs,
          build, initPc, gl, contextMode, warningShown, eventsAttached,
          loopStarted, rendererState, canvasSize, previewZoom, previewOffset,
          dragging, lastPointer, needsRender, toBlob, supplied, lastFrame,
          lastRender, webglFailed, rendererEvent, rendererEvents,
          blob, exportFormat, metaState, metaText, metaResult, metaStep,
          painter, lastPaint, grainOrigin, updatedSincePaint, exported, paintEvents,
          shade,
          heap, history, refs, historyEvents>>

rendVars == <<build, initPc, gl, contextMode, warningShown, eventsAttached,
              loopStarted, rendererState, canvasSize, previewZoom, previewOffset,
              dragging, lastPointer, needsRender, toBlob, supplied, lastFrame,
              lastRender, webglFailed, rendererEvent, rendererEvents>>

appVars == <<currentState, renderer, lastRenderResult, renderDirty, isRendering,
             autoRenderHandle, autoRenderTimer, hashUpdateTimer,
             renderButtonDisabled, downloadButtonDisabled, locationHash,
             hashchangeQueued, exports, downloads, downloaded, lastCall, lastEvent,
             inputs>>

(***************************************************************************)
(* The state functions applied to an input: normalise, write as JSON and   *)
(* read back, encode into the URL fragment and decode.                         *)
(***************************************************************************)
stateVars == <<input, normalized, reparsed, fragment, decoded, step>>

\* An encoded image, the format and snapshot of its export, a text to embed,
\* and what the embedding gave.
metaVars == <<blob, exportFormat, metaState, metaText, metaResult, metaStep>>

\* The painting renderer, its last render, the key and snapshot the grain in
\* the noise canvas was generated for, whether the renderer was given a state
\* since it last painted its buffer, the exports so far, and the number of
\* events.
paintVars == <<painter, lastPaint, grainOrigin, updatedSincePaint, exported, paintEvents>>

\* The state objects by address, the history list of the preset manager, the
\* addresses the application holds, and the number of events so far.
historyVars == <<heap, history, refs, historyEvents>>

exceptState == <<appVars, rendVars, metaVars, paintVars, shade, historyVars>>
exceptApp == <<stateVars, rendVars, metaVars, paintVars, shade, historyVars>>
exceptRenderer == <<stateVars, appVars, metaVars, paintVars, shade, historyVars>>
exceptMeta == <<stateVars, appVars, rendVars, paintVars, shade, historyVars>>
exceptPaint == <<stateVars, appVars, rendVars, metaVars, shade, historyVars>>
exceptShade == <<stateVars, appVars, rendVars, metaVars, paintVars, historyVars>>
exceptHistory == <<stateVars, appVars, rendVars, metaVars, paintVars, shade>>

NoRefs == [current |-> 0, panel |-> 0, renderer |-> 0, pending |-> 0, detail |-> "",
           timer |-> FALSE, handed |-> 0, edits |-> 0, last |-> "none"]
HistoryAtRest ==
  /\ heap = <<>>
  /\ history = <<>>
  /\ refs = NoRefs
  /\ historyEvents = 0

\* The last colour or noise value computed, with its inputs.
NoShade == [step |-> "none"]

NoPaint ==
  [kind |-> "none", snapshot |-> Null, size |-> <<>>, view |-> <<>>, passes |-> <<>>,
   generated |-> FALSE, key |-> Null, held |-> [key |-> Null, snapshot |-> Null],
   updated |-> FALSE, bufferBefore |-> <<>>, bufferAfter |-> <<>>, dirtyAfter |-> FALSE]
PaintAtRest ==
  /\ painter = Painter(WebGLBuild, TRUE, defaultState)
  /\ lastPaint = NoPaint
  /\ grainOrigin = [key |-> Null, snapshot |-> Null]
  /\ updatedSincePaint = TRUE
  /\ exported = <<>>
  /\ paintEvents = 0

NoEmbedding == [rejected |-> FALSE, threw |-> FALSE, bytes |-> <<>>]
MetaAtRest ==
  /\ blob = <<>>
  /\ exportFormat = "png"
  /\ metaState = defaultState
  /\ metaText = <<>>
  /\ metaResult = NoEmbedding
  /\ metaStep = "input"

\* main.js as the module is loaded, before bootstrap has run.
AppAtLoad ==
  /\ currentState = Null
  /\ renderer = FALSE
  /\ lastRenderResult = Null
  /\ renderDirty = TRUE
  /\ isRendering = FALSE
  /\ autoRenderHandle = FALSE
  /\ autoRenderTimer = FALSE
  /\ hashUpdateTimer = FALSE
  /\ renderButtonDisabled = FALSE
  /\ downloadButtonDisabled = FALSE
  /\ hashchangeQueued = 0
  /\ exports = <<>>
  /\ downloads = 0
  /\ downloaded = NoDownload
  /\ lastCall = NoCall
  /\ lastEvent = "load"
  /\ inputs = 0

\* No input has been given to the state functions.
StateAtRest ==
  /\ input = Undef
  /\ normalized = Undef
  /\ reparsed = Undef
  /\ fragment = <<>>
  /\ decoded = Undef
  /\ step = "rest"

Renderer ==
  [build |-> build, initPc |-> initPc, gl |-> gl, contextMode |-> contextMode,
   warningShown |-> warningShown, eventsAttached |-> eventsAttached,
   loopStarted |-> loopStarted, state |-> rendererState, canvasSize |-> canvasSize,
   previewZoom |-> previewZoom, previewOffset |-> previewOffset,
   dragging |-> dragging, lastPointer |-> lastPointer, needsRender |-> needsRender,
   toBlob |-> toBlob, supplied |-> supplied, lastFrame |-> lastFrame,
   lastRender |-> lastRender, webglFailed |-> webglFailed]

RendererIs(r) ==
  /\ build = r.build
  /\ initPc = r.initPc
  /\ gl = r.gl
  /\ contextMode = r.contextMode
  /\ warningShown = r.warningShown
  /\ eventsAttached = r.eventsAttached
  /\ loopStarted = r.loopStarted
  /\ rendererState = r.state
  /\ canvasSize = r.canvasSize
  /\ previewZoom = r.previewZoom
  /\ previewOffset = r.previewOffset
  /\ dragging = r.dragging
  /\ lastPointer = r.lastPointer
  /\ needsRender = r.needsRender
  /\ toBlob = r.toBlob
  /\ supplied = r.supplied
  /\ lastFrame = r.lastFrame
  /\ lastRender = r.lastRender
  /\ webglFailed = r.webglFailed

\* No renderer has been constructed.
RendererAtRest ==
  /\ RendererIs([WallpaperRenderer(WebGLBuild, defaultState, FALSE)
                   EXCEPT !.initPc = "unbuilt"])
  /\ rendererEvent = "none"
  /\ rendererEvents = 0

InitState ==
  /\ MetaAtRest
  /\ PaintAtRest
  /\ shade = NoShade
  /\ HistoryAtRest
  /\ RendererAtRest
  /\ input \in RawInputs
  /\ normalized = Undef
  /\ reparsed = Undef
  /\ fragment = <<>>
  /\ decoded = Undef
  /\ step = "input"
  /\ AppAtLoad
  /\ locationHash = <<>>

Normalize ==
  /\ step = "input"
  /\ normalized' = normalizeState(input)
  /\ step' = "normalized"
  /\ UNCHANGED <<input, reparsed, fragment, decoded, exceptState>>

\* A settings file written from the snapshot and read back.
Reparse ==
  /\ step = "normalized"
  /\ reparsed' = deserializeState(serializeState(normalized))
  /\ step' = "reparsed"
  /\ UNCHANGED <<input, normalized, fragment, decoded, exceptState>>

Encode ==
  /\ step = "reparsed"
  /\ fragment' = encodeStateToUrl(normalized)
  /\ step' = "encoded"
  /\ UNCHANGED <<input, normalized, reparsed, decoded, exceptState>>

Decode ==
  /\ step = "encoded"
  /\ decoded' = decodeStateFromUrl(fragment)
  /\ step' = "decoded"
  /\ UNCHANGED <<input, normalized, reparsed, fragment, exceptState>>

NextState == Normalize \/ Reparse \/ Encode \/ Decode

SpecState == InitState /\ [][NextState]_vars

\* C4: after normalizeState the snapshot has every section and field of the
\* defaults, and every object-valued field of the defaults is still an object,
\* whatever the input was.
C4_Complete == step # "input" => Covers(defaultState, normalized)

\* C5: after normalizeState every enum field of the snapshot is one of its
\* known variants, so that no renderer selects a mode from an unknown value.
C5_EnumsKnown == step # "input" => EnumsKnown(normalized)

\* C6: after normalizeState every numeric field with a declared range lies
\* within the range: out-of-range input has been clamped.
C6_Clamped == step # "input" => NumbersInRange(normalized)

\* C8: for a valid snapshot, reading back the JSON text gives the normalised
\* snapshot, and decoding the encoded fragment gives the normalised snapshot and
\* never null, also when the encoder has stripped the padding.
C8_RoundTrip ==
  ValidSnapshot(normalized) =>
    /\ step \in {"reparsed", "encoded", "decoded"} => reparsed = normalizeState(normalized)
    /\ step = "decoded" => decoded # Null /\ decoded = normalizeState(normalized)

C8_Witness ==
  /\ step = "decoded"
  /\ ValidSnapshot(normalized)
  /\ Len(fragment) % 4 # 0

(***************************************************************************)
(* The application: main.js with the control panel's inputs, the timers,   *)
(* the hashchange events and the exports settling.                         *)
(***************************************************************************)


Main(codec) ==
  [codec |-> codec, currentState |-> currentState, renderer |-> renderer,
   lastRenderResult |-> lastRenderResult, renderDirty |-> renderDirty,
   isRendering |-> isRendering, autoRenderHandle |-> autoRenderHandle,
   autoRenderTimer |-> autoRenderTimer, hashUpdateTimer |-> hashUpdateTimer,
   renderButtonDisabled |-> renderButtonDisabled,
   downloadButtonDisabled |-> downloadButtonDisabled,
   locationHash |-> locationHash, hashchangeQueued |-> hashchangeQueued,
   exports |-> exports, downloads |-> downloads, downloaded |-> downloaded,
   lastCall |-> lastCall]

Commit(after, event) ==
  \E m \in {after} :
  /\ currentState' = m.currentState
  /\ renderer' = m.renderer
  /\ lastRenderResult' = m.lastRenderResult
  /\ renderDirty' = m.renderDirty
  /\ isRendering' = m.isRendering
  /\ autoRenderHandle' = m.autoRenderHandle
  /\ autoRenderTimer' = m.autoRenderTimer
  /\ hashUpdateTimer' = m.hashUpdateTimer
  /\ renderButtonDisabled' = m.renderButtonDisabled
  /\ downloadButtonDisabled' = m.downloadButtonDisabled
  /\ locationHash' = m.locationHash
  /\ hashchangeQueued' = m.hashchangeQueued
  /\ exports' = m.exports
  /\ downloads' = m.downloads
  /\ downloaded' = m.downloaded
  /\ lastCall' = m.lastCall
  /\ lastEvent' = event

InitApp ==
  /\ MetaAtRest
  /\ PaintAtRest
  /\ shade = NoShade
  /\ HistoryAtRest
  /\ RendererAtRest
  /\ AppAtLoad
  /\ locationHash \in BootHashes
  /\ StateAtRest

Bootstrap(codec) ==
  /\ ~renderer
  /\ Commit(bootstrap(Main(codec)), "bootstrap")
  /\ UNCHANGED <<inputs, exceptApp>>

AddStop(codec) ==
  /\ renderer
  /\ inputs < MaxInputs
  /\ IsArr(Stops(currentState))
  /\ Len(Stops(currentState).v) < MAX_GRADIENT_STOPS
  /\ Commit(handleStateChange(Main(codec), addGradientStop(currentState)), "addStop")
  /\ inputs' = inputs + 1
  /\ UNCHANGED exceptApp

\* The panel shows the first MAX_GRADIENT_STOPS stops, each with its button.
RemoveStop(codec) ==
  /\ renderer
  /\ inputs < MaxInputs
  /\ IsArr(Stops(currentState))
  /\ Len(Stops(currentState).v) > 1
  /\ \E index \in 1..Min(Len(Stops(currentState).v), MAX_GRADIENT_STOPS) :
       Commit(handleStateChange(Main(codec), removeGradientStop(currentState, index)),
              "removeStop")
  /\ inputs' = inputs + 1
  /\ UNCHANGED exceptApp

SelectFormat(codec) ==
  /\ renderer
  /\ inputs < MaxInputs
  /\ PanelRenders(currentState)
  /\ \E format \in Range(OUTPUT_FORMATS) :
       Commit(handleStateChange(Main(codec), Put2(currentState, "output", "format", Str(format))),
              "selectFormat")
  /\ inputs' = inputs + 1
  /\ UNCHANGED exceptApp

ResetClick(codec) ==
  /\ renderer
  /\ inputs < MaxInputs
  /\ Commit(resetClick(Main(codec)), "reset")
  /\ inputs' = inputs + 1
  /\ UNCHANGED exceptApp

ImportJson(codec) ==
  /\ renderer
  /\ inputs < MaxInputs
  /\ \E text \in ImportFiles : Commit(importJson(Main(codec), text), "import")
  /\ inputs' = inputs + 1
  /\ UNCHANGED exceptApp

UserNavigates(codec) ==
  /\ inputs < MaxInputs
  /\ \E h \in UserHashes :
       /\ h # locationHash
       /\ Commit([Main(codec) EXCEPT !.locationHash = h, !.hashchangeQueued = @ + 1], "navigate")
  /\ inputs' = inputs + 1
  /\ UNCHANGED exceptApp

HashChange(codec) ==
  /\ hashchangeQueued > 0
  /\ Commit(hashchange([Main(codec) EXCEPT !.hashchangeQueued = @ - 1]), "hashchange")
  /\ UNCHANGED <<inputs, exceptApp>>

HashUpdateTimer(codec) ==
  /\ hashUpdateTimer
  /\ Commit(updateLocationHash([Main(codec) EXCEPT !.hashUpdateTimer = FALSE], currentState),
            "hashTimer")
  /\ UNCHANGED <<inputs, exceptApp>>

AutoRenderTimer(codec) ==
  /\ autoRenderTimer
  /\ Commit(ensureRender([Main(codec) EXCEPT !.autoRenderTimer = FALSE], "timer"), "autoRender")
  /\ UNCHANGED <<inputs, exceptApp>>

RenderClick(codec) ==
  /\ renderer
  /\ ~renderButtonDisabled
  /\ Commit(performRender(Main(codec), "button"), "renderClick")
  /\ UNCHANGED <<inputs, exceptApp>>

DownloadClick(codec) ==
  /\ renderer
  /\ ~downloadButtonDisabled
  /\ downloads < MaxDownloads
  /\ Commit(downloadClick(Main(codec)), "downloadClick")
  /\ UNCHANGED <<inputs, exceptApp>>

\* renderToBlob resolves with the encoded image.
ExportResolves(codec) ==
  /\ \E i \in 1..Len(exports) :
       LET job == exports[i]
           rest == SubSeq(exports, 1, i - 1) \o SubSeq(exports, i + 1, Len(exports))
       IN Commit(afterRender(performRenderResolved([Main(codec) EXCEPT !.exports = rest], job),
                             job.caller, TRUE),
                 "resolve")
  /\ UNCHANGED <<inputs, exceptApp>>

\* renderToBlob rejects: the encoder gave no blob, or the renderer threw.
ExportRejects(codec) ==
  /\ \E i \in 1..Len(exports) :
       LET job == exports[i]
           rest == SubSeq(exports, 1, i - 1) \o SubSeq(exports, i + 1, Len(exports))
       IN Commit(afterRender(performRenderRejected([Main(codec) EXCEPT !.exports = rest], job),
                             job.caller, FALSE),
                 "reject")
  /\ UNCHANGED <<inputs, exceptApp>>

NextApp ==
  \E codec \in {Codec} :
    \/ Bootstrap(codec) \/ AddStop(codec) \/ RemoveStop(codec) \/ SelectFormat(codec)
    \/ ResetClick(codec) \/ ImportJson(codec) \/ UserNavigates(codec)
    \/ HashChange(codec) \/ HashUpdateTimer(codec) \/ AutoRenderTimer(codec)
    \/ RenderClick(codec) \/ DownloadClick(codec) \/ ExportResolves(codec)
    \/ ExportRejects(codec)

Spec == InitApp /\ [][NextApp]_vars

\* C1: at most one export is in flight at the renderer; performRender starts
\* an export only when no render is in progress, and a call made while one is
\* in progress returns false.
C1_OneExport ==
  /\ Len(exports) <= 1
  /\ isRendering <=> Len(exports) = 1
  /\ lastCall.fn = "performRender" /\ lastCall.busy => lastCall.result = "false"

C1_Witness ==
  /\ lastEvent = "autoRender"
  /\ lastCall.fn = "performRender"
  /\ lastCall.busy
  /\ Len(exports) = 1

\* C7: the gradient has between 1 and MAX_GRADIENT_STOPS stops in every state
\* of the application, and neither backend paints more than
\* MAX_GRADIENT_STOPS stops.
C7_StopCount ==
  renderer /\ IsArr(Stops(currentState)) =>
    /\ StopCountOk(currentState)
    /\ webglStopCount(currentState) <= MAX_GRADIENT_STOPS
    /\ canvasStopCount(currentState) <= MAX_GRADIENT_STOPS

\* C10: when the export rejects, performRender returns false with
\* lastRenderResult unchanged, renderDirty true and isRendering false, and the
\* download handler starts no download.
C10_RejectedExport ==
  [][lastEvent' = "reject" =>
       /\ lastCall' = [fn |-> "performRender", busy |-> FALSE, result |-> "false"]
       /\ lastRenderResult' = lastRenderResult
       /\ renderDirty'
       /\ ~isRendering'
       /\ downloads' = downloads]_vars

C10_Witness ==
  /\ lastEvent = "reject"
  /\ lastRenderResult # Null
  /\ ~lastRenderMatchesCurrent(Main(Codec))

\* The decimal digits of a whole number kept in hundredths.
IsWhole(val) == IsNum(val) /\ val.v >= 0 /\ val.v % 100 = 0
Decimal(val) == Digits(val.v \div 100)

\* C13: every download is named wall_<width>x<height>_<seed>.<ext> with the
\* width, height, seed and format of the snapshot rendered into the downloaded
\* blob, <ext> being png, webp or jpg; 1920 x 1080, seed 42, png gives
\* wall_1920x1080_42.png.
C13_Filename ==
  /\ downloaded # NoDownload =>
       LET width == Get2(downloaded.blob, "canvas", "width")
           height == Get2(downloaded.blob, "canvas", "height")
           seed == Get2(downloaded.blob, "random", "seed")
           format == Get2(downloaded.blob, "output", "format")
       IN /\ format \in {Str("png"), Str("webp"), Str("jpg")}
          /\ IsWhole(width) /\ IsWhole(height) /\ IsWhole(seed)
          /\ downloaded.filename =
               <<119, 97, 108, 108, 95>> \o Decimal(width) \o <<120>> \o Decimal(height)
                 \o <<95>> \o Decimal(seed) \o <<46>> \o StrCodes(format.v)
  /\ downloadFilename(Put2(Put2(defaultState, "random", "seed", Whole(42)),
                           "output", "format", Str("png")))
       = <<119, 97, 108, 108, 95, 49, 57, 50, 48, 120, 49, 48, 56, 48, 95, 52, 50,
           46, 112, 110, 103>>

(***************************************************************************)
(* One renderer: init, the canvas's events, updateState, the frames of the *)
(* preview loop and one export at a time (main.js starts no second export  *)
(* while one is in flight).                                                *)
(***************************************************************************)
MaxRendererEvents == 4

WideState == Put2(defaultState, "canvas", "width", Whole(2560))
RendererStates == {defaultState, WideState}
Points == {[x |-> 25, y |-> 50], [x |-> 75, y |-> 25]}

CommitRenderer(after, event) ==
  \E r \in {after} :
    /\ build' = r.build
    /\ initPc' = r.initPc
    /\ gl' = r.gl
    /\ contextMode' = r.contextMode
    /\ warningShown' = r.warningShown
    /\ eventsAttached' = r.eventsAttached
    /\ loopStarted' = r.loopStarted
    /\ rendererState' = r.state
    /\ canvasSize' = r.canvasSize
    /\ previewZoom' = r.previewZoom
    /\ previewOffset' = r.previewOffset
    /\ dragging' = r.dragging
    /\ lastPointer' = r.lastPointer
    /\ needsRender' = r.needsRender
    /\ toBlob' = r.toBlob
    /\ supplied' = r.supplied
    /\ lastFrame' = r.lastFrame
    /\ lastRender' = r.lastRender
    /\ webglFailed' = r.webglFailed
    /\ rendererEvent' = event

\* An event from outside the renderer: the page's user or main.js.
Counted ==
  /\ rendererEvents < MaxRendererEvents
  /\ rendererEvents' = rendererEvents + 1
  /\ UNCHANGED exceptRenderer

Uncounted == UNCHANGED <<rendererEvents, exceptRenderer>>

InitRenderer ==
  /\ MetaAtRest
  /\ PaintAtRest
  /\ shade = NoShade
  /\ HistoryAtRest
  /\ \E which \in {WebGLBuild, CanvasBuild}, initialState \in RendererStates,
        context \in BOOLEAN :
       /\ which = CanvasBuild => ~context
       /\ RendererIs(WallpaperRenderer(which, initialState, context))
  /\ rendererEvent = "constructor"
  /\ rendererEvents = 0
  /\ AppAtLoad
  /\ locationHash = <<>>
  /\ StateAtRest

\* createContext gave null.
InitNoContext ==
  /\ build = WebGLBuild /\ initPc = "init" /\ ~gl
  /\ CommitRenderer(initFinish(initNoContext(Renderer)), "init")
  /\ Uncounted

\* setupWebGL throws: the catch block and the rest of init run at once.
InitSetupThrows ==
  /\ build = WebGLBuild /\ initPc = "init" /\ gl
  /\ CommitRenderer(initFinish(initCatch(Renderer)), "init")
  /\ Uncounted

\* setupWebGL returns and loadBlueNoise runs up to the await; it has returned
\* or thrown by then, and init goes on in a later microtask.
InitAwaits ==
  /\ build = WebGLBuild /\ initPc = "init" /\ gl
  /\ \E outcome \in {"awaitResolved", "awaitRejected"} :
       CommitRenderer([Renderer EXCEPT !.initPc = outcome], "init")
  /\ Uncounted

InitResumes ==
  /\ initPc = "awaitResolved"
  /\ CommitRenderer(initFinish(Renderer), "init")
  /\ Uncounted

InitCatches ==
  /\ initPc = "awaitRejected"
  /\ CommitRenderer(initFinish(initCatch(Renderer)), "init")
  /\ Uncounted

Wheel ==
  /\ eventsAttached
  /\ \E deltaY \in {-1, 1} : CommitRenderer(wheel(Renderer, deltaY), "wheel")
  /\ Counted

PointerDown ==
  /\ eventsAttached
  /\ \E point \in Points : CommitRenderer(pointerdown(Renderer, point), "pointerdown")
  /\ Counted

PointerUp ==
  /\ eventsAttached
  /\ CommitRenderer(pointerup(Renderer), "pointerup")
  /\ Counted

PointerLeave ==
  /\ eventsAttached
  /\ CommitRenderer(pointerleave(Renderer), "pointerleave")
  /\ Counted

PointerMove ==
  /\ eventsAttached
  /\ \E point \in Points : CommitRenderer(pointermove(Renderer, point), "pointermove")
  /\ Counted

Resize ==
  /\ eventsAttached
  /\ CommitRenderer(handleResize(Renderer), "resize")
  /\ Counted

\* main.js hands the renderer a state once bootstrap has constructed it.
UpdateState ==
  /\ initPc = "done"
  /\ \E nextState \in RendererStates :
       CommitRenderer(rendererUpdateState(Renderer, nextState), "updateState")
  /\ Counted

Frame ==
  /\ loopStarted
  /\ CommitRenderer(loop(Renderer), "frame")
  /\ Uncounted

\* bootstrap starts the first export in the turn that constructs the renderer,
\* so an export can start before init has gone on after its await.
RenderToBlob ==
  /\ initPc \in {"awaitResolved", "awaitRejected", "done"}
  /\ toBlob.kind = "none"
  /\ \E snapshot \in RendererStates :
       CommitRenderer(renderToBlob(Renderer, snapshot), "renderToBlob")
  /\ Counted

\* The toBlob callback is a task of its own: init has finished by then.
ToBlobResolves ==
  /\ initPc = "done"
  /\ toBlob.kind # "none"
  /\ CommitRenderer(renderToBlobResolved(Renderer), "resolved")
  /\ Uncounted

ToBlobRejects ==
  /\ initPc = "done"
  /\ toBlob.kind # "none"
  /\ CommitRenderer(renderToBlobRejected(Renderer), "rejected")
  /\ Uncounted

NextRenderer ==
  \/ InitNoContext \/ InitSetupThrows \/ InitAwaits \/ InitResumes \/ InitCatches
  \/ Wheel \/ PointerDown \/ PointerUp \/ PointerLeave \/ PointerMove
  \/ Resize \/ UpdateState \/ Frame
  \/ RenderToBlob \/ ToBlobResolves \/ ToBlobRejects

SpecRenderer == InitRenderer /\ [][NextRenderer]_vars

\* C2: after every wheel, pointermove and updateState event, on either
\* renderer, zoom and offset are such that the rectangle of the wallpaper the
\* preview shows lies inside the rendered buffer: 0 <= sx and
\* sx + viewWidth <= width, and the same for y.
C2_ViewportInside ==
  rendererEvent \in {"wheel", "pointermove", "updateState"} => ViewportInside(Renderer)

\* C3: a frame renders the preview if and only if needsRender was set and
\* leaves needsRender cleared, and the render uses the state most recently
\* supplied to the renderer by its constructor or updateState.
C3_FrameRendersLatest ==
  rendererEvent = "frame" =>
    /\ lastFrame.rendered <=> lastFrame.needed
    /\ ~needsRender
    /\ lastFrame.rendered => lastFrame.state = lastFrame.supplied

MaxChunks == 2

Chunk(type, data) == Uint32BE(Len(data)) \o type \o data \o crc32(type \o data)
\* a 1 x 1 image, 8 bits, RGBA
HeaderChunk == Chunk(TypeIHDR, <<0, 0, 0, 1, 0, 0, 0, 1, 8, 6, 0, 0, 0>>)
EndChunk == Chunk(TypeIEND, <<>>)
\* Chunks between the header and the end; the text of one holds the letters IEND.
MiddleChunks ==
  { Chunk(TypeIDAT, <<120, 1>>),
    Chunk(TypeIDAT, <<>>),
    Chunk(TypeTEXt, <<67, 0>> \o TypeIEND) }

RECURSIVE Flatten(_)
Flatten(chunks) == IF chunks = <<>> THEN <<>> ELSE Head(chunks) \o Flatten(Tail(chunks))

PngFiles ==
  { PngSignature \o HeaderChunk \o Flatten(chunks) \o EndChunk :
      chunks \in UNION { [1..n -> MiddleChunks] : n \in 0..MaxChunks } }

WebpFile ==
  TagRIFF \o Uint32LE(12) \o TagWEBP \o <<86, 80, 56, 32>> \o Uint32LE(0)

BrokenFiles ==
  { <<>>,
    SubSeq(PngSignature, 1, 4),
    PngSignature,
    PngSignature \o HeaderChunk,
    PngSignature \o HeaderChunk \o <<0, 0>>,
    PngSignature \o HeaderChunk \o SubSeq(EndChunk, 1, 6),
    PngSignature \o Uint32BE(256) \o TypeIDAT \o <<120, 1>>,
    SubSeq(WebpFile, 1, 10),
    TagRIFF \o <<1, 0>> }

Blobs == PngFiles \cup {WebpFile} \cup BrokenFiles

\* Snapshots with the metadata switched on and off.
MetaStates == {defaultState, Put2(defaultState, "output", "embedMetadata", Bool(FALSE))}
\* "{}", "café" and the empty text
Texts == {<<123, 125>>, StrCodes("cafe_acute"), <<>>}

InitMetadata ==
  /\ blob \in Blobs
  /\ exportFormat \in {"png", "webp", "jpg"}
  /\ metaState \in MetaStates
  /\ metaText \in Texts
  /\ metaResult = NoEmbedding
  /\ metaStep = "input"
  /\ StateAtRest
  /\ AppAtLoad
  /\ locationHash = <<>>
  /\ RendererAtRest
  /\ PaintAtRest
  /\ shade = NoShade
  /\ HistoryAtRest

Embedded(made, stepName) ==
  /\ metaStep = "input"
  /\ metaResult' = made
  /\ metaStep' = stepName
  /\ UNCHANGED <<blob, exportFormat, metaState, metaText, exceptMeta>>

MaybeEmbedMetadata ==
  Embedded(maybeEmbedMetadata(blob, exportFormat, metaState), "maybeEmbedMetadata")

EmbedPngMetadata ==
  \E made \in {embedPngMetadata(blob, metaText)} :
    Embedded([rejected |-> made.threw, threw |-> made.threw, bytes |-> made.bytes],
             "embedPngMetadata")

EmbedWebpMetadata ==
  \E made \in {embedWebpMetadata(blob, metaText)} :
    Embedded([rejected |-> made.threw, threw |-> made.threw, bytes |-> made.bytes],
             "embedWebpMetadata")

NextMetadata ==
  \/ MaybeEmbedMetadata
  \/ EmbedPngMetadata
  \/ EmbedWebpMetadata

SpecMetadata == InitMetadata /\ [][NextMetadata]_vars

RECURSIVE Crc32Bits(_, _)
\* k shifts of the CRC register, one bit each.
Crc32Bits(c, k) ==
  IF k = 0 THEN c
  ELSE Crc32Bits(IF c[4] % 2 = 1 THEN Xor4(Shr1(c), CrcPolynomial) ELSE Shr1(c), k - 1)
RECURSIVE Crc32Register(_, _, _, _)
\* The CRC register after bytes[lo..hi], from the definition of CRC-32: each
\* byte is added into the low end of the register and shifted out bit by bit.
Crc32Register(bytes, lo, hi, c) ==
  IF lo > hi THEN c
  ELSE IF lo = hi THEN Crc32Bits(<<c[1], c[2], c[3], Xor(c[4], bytes[lo])>>, 8)
  ELSE LET mid == (lo + hi) \div 2
       IN CHOOSE out \in {Crc32Register(bytes, mid + 1, hi, half) :
                             half \in {Crc32Register(bytes, lo, mid, c)}} : TRUE
Crc32Reference(bytes) == Xor4(Crc32Register(bytes, 1, Len(bytes), AllOnes), AllOnes)

\* A PNG file as the claim means it: the signature, chunks of the declared
\* lengths, and a final empty IEND chunk.
RECURSIVE ChunksEndAt(_, _)
ChunksEndAt(bytes, offset) ==
  /\ offset + 12 <= Len(bytes)
  /\ LET length == GetUint32(bytes, offset)
     IN IF SubSeq(bytes, offset + 5, offset + 8) = TypeIEND
        THEN length = 0 /\ offset + 12 = Len(bytes)
        ELSE ChunksEndAt(bytes, offset + 12 + length)
WellFormedPng(bytes) ==
  /\ Len(bytes) >= 8
  /\ SubSeq(bytes, 1, 8) = PngSignature
  /\ ChunksEndAt(bytes, 8)

\* C12: for a well-formed PNG, embedPngMetadata returns the input with one
\* tEXt chunk inserted right before the IEND chunk: a big-endian length equal
\* to the length of the data ("settings", a zero byte, the UTF-8 text), the
\* type, the data, and the CRC-32 of type and data; nothing else changes.
C12_TextChunkBeforeEnd ==
  (metaStep = "embedPngMetadata" /\ WellFormedPng(blob)) =>
    LET data == Keyword \o Utf8Encode(metaText)
        before == Len(blob) - 12
        out == metaResult.bytes
    IN /\ ~metaResult.threw
       /\ Len(out) = Len(blob) + 12 + Len(data)
       /\ SubSeq(out, 1, before) = SubSeq(blob, 1, before)
       /\ SubSeq(out, before + 1, before + 4) = Uint32BE(Len(data))
       /\ SubSeq(out, before + 5, before + 8) = TypeTEXt
       /\ SubSeq(out, before + 9, before + 8 + Len(data)) = data
       /\ SubSeq(out, before + 9 + Len(data), before + 12 + Len(data))
            = Crc32Reference(TypeTEXt \o data)
       /\ SubSeq(out, before + 13 + Len(data), Len(out)) = EndChunk

\* A PNG whose earlier text chunk holds the letters IEND, with a non-ASCII text embedded.
C12_Witness ==
  /\ metaStep = "embedPngMetadata"
  /\ WellFormedPng(blob)
  /\ Len(blob) > Len(PngSignature \o HeaderChunk \o EndChunk)
  /\ \E i \in 1..(Len(blob) - 16) : SubSeq(blob, i, i + 3) = TypeIEND
  /\ metaText = StrCodes("cafe_acute")
  /\ ~metaResult.threw

(***************************************************************************)
(* Painting: a renderer of either build, with or without WebGL2, receives  *)
(* state updates and pan and zoom input, renders preview frames and        *)
(* exports snapshots.  Every event happens at a later time than the one    *)
(* before it.                                                              *)
(***************************************************************************)
MaxPaintEvents == 4

SeedState == Put2(defaultState, "random", "seed", Whole(DefaultSeed + 1))
VignetteState == Put2(defaultState, "vignette", "strength", Num(50))
JpgState == Put2(defaultState, "output", "format", Str("jpg"))
\* a canvas width as an imported settings file can give it
HalfPixelState == Put2(defaultState, "canvas", "width", Num(256050))
PaintStates == {defaultState, SeedState, VignetteState, JpgState, HalfPixelState}
\* zoom and offset after a wheel turn and a drag
Views == {[zoom |-> Num(95), offset |-> <<Num(0), Num(0)>>],
          [zoom |-> Num(100), offset |-> <<Num(-25), Num(10)>>]}

InitPaint ==
  /\ \E which \in {WebGLBuild, CanvasBuild}, context \in BOOLEAN :
       /\ which = CanvasBuild => ~context
       /\ painter = Painter(which, context, defaultState)
  /\ lastPaint = NoPaint
  /\ grainOrigin = [key |-> Null, snapshot |-> Null]
  /\ updatedSincePaint = TRUE
  /\ exported = <<>>
  /\ paintEvents = 0
  /\ StateAtRest
  /\ AppAtLoad
  /\ locationHash = <<>>
  /\ RendererAtRest
  /\ MetaAtRest
  /\ shade = NoShade
  /\ HistoryAtRest

\* A render of a state: the painter moves on, the render is recorded.
Painted(kind, made, state) ==
  /\ painter' = [made.p EXCEPT !.now = @ + 1]
  /\ lastPaint' = [kind |-> kind, snapshot |-> state, size |-> made.size,
                   view |-> made.view, passes |-> made.passes,
                   generated |-> made.generated, key |-> made.key, held |-> grainOrigin,
                   updated |-> updatedSincePaint, bufferBefore |-> painter.bufferSize,
                   bufferAfter |-> made.p.bufferSize,
                   dirtyAfter |-> made.p.wallpaperDirty]
  /\ grainOrigin' = IF made.generated THEN [key |-> made.key, snapshot |-> state]
                    ELSE grainOrigin
  /\ updatedSincePaint' = IF kind = "preview" /\ made.passes # <<>> THEN FALSE
                          ELSE updatedSincePaint

PaintUpdateState ==
  /\ paintEvents < MaxPaintEvents
  /\ \E nextState \in PaintStates :
       painter' = [paintUpdateState(painter, nextState) EXCEPT !.now = @ + 1]
  /\ updatedSincePaint' = TRUE
  /\ paintEvents' = paintEvents + 1
  /\ UNCHANGED <<lastPaint, grainOrigin, exported, exceptPaint>>

PaintView ==
  /\ paintEvents < MaxPaintEvents
  /\ \E to \in Views :
       painter' = [painter EXCEPT !.previewZoom = to.zoom, !.previewOffset = to.offset,
                                  !.now = @ + 1]
  /\ paintEvents' = paintEvents + 1
  /\ UNCHANGED <<lastPaint, grainOrigin, updatedSincePaint, exported, exceptPaint>>

PaintFrame ==
  /\ paintEvents < MaxPaintEvents
  /\ \E made \in {paintPreview(painter)} : Painted("preview", made, painter.state)
  /\ paintEvents' = paintEvents + 1
  /\ UNCHANGED <<exported, exceptPaint>>

PaintExport ==
  /\ paintEvents < MaxPaintEvents
  /\ \E state \in PaintStates :
       \E made \in {paintToBlob(painter, state)} :
         /\ Painted("export", made, state)
         /\ exported' = Append(exported,
                               [snapshot |-> state, size |-> made.size,
                                passes |-> made.passes, before |-> painter])
  /\ paintEvents' = paintEvents + 1
  /\ UNCHANGED exceptPaint

NextPaint ==
  \/ PaintUpdateState
  \/ PaintView
  \/ PaintFrame
  \/ PaintExport

SpecPaint == InitPaint /\ [][NextPaint]_vars

\* C14: two exports of the same snapshot by one renderer give the same pixel
\* data, whatever the renderer's state, pan, zoom, grain cache and clock were
\* when each of them started.
C14_ExportOfSnapshotAlone ==
  \A i, j \in 1..Len(exported) :
    exported[i].snapshot = exported[j].snapshot =>
      /\ exported[i].size = exported[j].size
      /\ exported[i].passes = exported[j].passes

\* Two exports of one snapshot, the second started later with another state,
\* another pan or zoom and another cache key in the renderer.
C14_Witness ==
  \E i, j \in 1..Len(exported) :
    /\ i < j
    /\ exported[i].snapshot = exported[j].snapshot
    /\ exported[i].before.state # exported[j].before.state
    /\ exported[i].before.previewZoom # exported[j].before.previewZoom
    /\ exported[i].before.now # exported[j].before.now

PassOrder == <<"base", "gradient", "variant", "grain", "vignette", "dither", "gamma">>
PassRank(pass) == CHOOSE k \in 1..Len(PassOrder) : PassOrder[k] = pass
\* The passes of the last render run in the fixed order.
PassesInOrder ==
  \A i, j \in 1..Len(lastPaint.passes) :
    i < j => PassRank(lastPaint.passes[i].pass) < PassRank(lastPaint.passes[j].pass)

\* C15: every render that paints runs its passes in the order base fill,
\* gradient, variant, grain, vignette, dither, gamma, dithers only for jpg,
\* and ends with the gamma pass.
C15_PassOrderEndsWithGamma ==
  lastPaint.passes # <<>> =>
    /\ PassesInOrder
    /\ \A i \in 1..Len(lastPaint.passes) :
         lastPaint.passes[i].pass = "dither" =>
           Get2(lastPaint.snapshot, "output", "format") = Str("jpg")
    /\ lastPaint.passes[Len(lastPaint.passes)].pass = "gamma"

DifferOnlyInSeed(left, right) ==
  /\ Get2(left, "random", "seed") # Get2(right, "random", "seed")
  /\ Put2(left, "random", "seed", Get2(right, "random", "seed")) = right
PassesNamed(passes, pass) == SelectSeq(passes, LAMBDA op : op.pass = pass)

C20_RegeneratedOnlyOnKeyChange ==
  (painter.build = CanvasBuild /\ lastPaint.generated) =>
    \/ lastPaint.held.key = Null
    \/ lastPaint.held.key # lastPaint.key

(***************************************************************************)
(* Colours and noise values as numbers.  A colour channel is an integer in *)
(* thousandths (One is 1.0); the pixel is grey, so that its luminance is   *)
(* the channel itself.  The values a pixel's position and the hash decide  *)
(* (noise sample, vignette falloff, octave samples) are inputs.            *)
(***************************************************************************)
One == 1000
clampColor(x, lo, hi) == Max(lo, Min(hi, x))
mix(x, y, a) == (x * (One - a) + y * a) \div One
\* the square root of a colour of at most 2.0, rounded down
Sqrt(x) == CHOOSE r \in 0..1500 : r * r <= x * One /\ x * One < (r + 1) * (r + 1)
\* pow(x, 1.0 / max(uGamma, 0.001)) for gamma 1 and gamma 2
powGamma(x, gamma) == IF gamma = 200 THEN Sqrt(x) ELSE x

\* shaders.js smoothstep(0.0, edge, x) for edge > 0
smoothstep0(edge, x) ==
  LET t == clampColor((x * One) \div edge, 0, One)
  IN (((t * t) \div One) * (3 * One - 2 * t)) \div One

\* shaders.js blend, one channel
blend(base, layer, mode) ==
  IF mode = 0 THEN mix(base, layer, One)
  ELSE IF mode = 1 THEN mix(base, mix(base, layer, 700) + (base * layer) \div One, 700)
  ELSE IF mode = 2
    THEN mix(base,
             IF base <= 500 THEN (2 * base * layer) \div One
             ELSE One - (2 * (One - base) * (One - layer)) \div One,
             800)
  ELSE IF mode = 3 THEN One - ((One - base) * (One - layer)) \div One
  ELSE mix(base, layer, One)

\* shaders.js applyNoise with uIntensityCurve 0 and chroma off; amount is
\* uNoiseAmount in hundredths, protect is uProtectShadows > 0.
shaderApplyNoise(color, noise, amount, protect) ==
  LET intensity == (clampColor(noise, 0, One) * amount) \div 10000
      luminance == color
      protection == smoothstep0(protect, luminance)
      adjusted == mix(intensity, (intensity * luminance) \div One, protection)
      monochrome == color + (adjusted - adjusted \div 2)
                    + ((noise - 500) * adjusted) \div One
  IN clampColor(monochrome, 0, One)

\* shaders.js applyVignette, mode 0; falloff is the smoothstep of the distance
shaderApplyVignette(color, falloff, strength) ==
  LET s == clampColor(strength, 0, One)
  IN mix(color, (color * (One - (s * falloff) \div One)) \div One, s)

\* shaders.js main for one pixel, without dither (uApplyDither false); the
\* variant pass returns its colour as uShaderVariant is never uploaded.
\* withGrain FALSE leaves the grain pass out.
fragmentColor(px, withGrain) ==
  LET composed == blend(px.base, px.layer, px.mode)
      grained == IF withGrain
                 THEN shaderApplyNoise(composed, px.noise, px.amount, px.protect)
                 ELSE composed
      vignetted == shaderApplyVignette(grained, px.falloff, px.strength)
  IN clampColor(powGamma(vignetted, px.gamma), 0, One)

(***************************************************************************)
(* Multi-octave noise.  Amplitudes are integers in 1/256 (gain 0.5 or 1),  *)
(* octave samples integers in quarters (0, 2, 4 for 0, 0.5, 1), so that a  *)
(* weighted sum is an integer in 1/1024.  A value is a fraction num / den. *)
(***************************************************************************)
MaxOctaves == 8
AmplitudeOne == 256
SampleOne == 4

\* shaders.js fbm: the sum, in 1/1024
RECURSIVE fbmFrom(_, _, _, _, _, _)
fbmFrom(samples, octaves, gain, i, amp, sum) ==
  IF i >= MaxOctaves \/ i >= octaves THEN sum
  ELSE fbmFrom(samples, octaves, gain, i + 1, (amp * gain) \div 100,
               sum + amp * samples[i + 1])
fbm(samples, octaves, gain) == fbmFrom(samples, octaves, gain, 0, AmplitudeOne \div 2, 0)

\* shaders.js noiseValue for the algorithms fbm and simplex fbm
noiseValue(samples, octaves, gain) ==
  [num |-> clampColor(fbm(samples, octaves, gain), 0, AmplitudeOne * SampleOne),
   den |-> AmplitudeOne * SampleOne]

\* part_001 generateGrainData, the octave loop of one pixel:
\* <<sum, amplitudeSum>>
RECURSIVE octaveLoop(_, _, _, _, _, _, _)
octaveLoop(samples, octaves, gain, octave, amplitude, sum, amplitudeSum) ==
  IF octave >= octaves THEN <<sum, amplitudeSum>>
  ELSE octaveLoop(samples, octaves, gain, octave + 1, (amplitude * gain) \div 100,
                  sum + samples[octave + 1] * amplitude, amplitudeSum + amplitude)
\* value = clamp01(amplitudeSum > 0 ? sum / amplitudeSum : 0.5)
grainValue(samples, octaves, gain) ==
  LET looped == octaveLoop(samples, Max(1, octaves), clampColor(gain, 10, 100), 0,
                           AmplitudeOne, 0, 0)
  IN IF looped[2] > 0
     THEN [num |-> clampColor(looped[1], 0, looped[2] * SampleOne),
           den |-> looped[2] * SampleOne]
     ELSE [num |-> 1, den |-> 2]

(***************************************************************************)
(* Shading: single pixels and noise values, computed from chosen inputs.   *)
(***************************************************************************)
Channels == {0, 500, 1000}
Pixels ==
  [base : Channels, layer : Channels, mode : 0..3, noise : {0, 500, 1000},
   amount : {0, 3500}, protect : {50}, falloff : {0, 1000}, strength : {0, 400},
   gamma : {100, 200}]
Gains == {50, 100}
SampleValues == {0, 2, 4}
RECURSIVE Samples(_)
Samples(n) ==
  IF n = 0 THEN {<<>>}
  ELSE {Append(shorter, last) : shorter \in Samples(n - 1), last \in SampleValues}
NoGrainState == Put2(defaultState, "grain", "amount", Num(0))

\* Stop positions and gradient coordinates, in units of 1e-4.
PosOne == 10000
MaxStopList == 3
StopOffsets == {0, 2500, 5000, 10000}
GradientTs == {0, 1000, 2500, 4000, 5000, 7500, 10000}
RECURSIVE StopLists(_)
StopLists(n) ==
  IF n = 0 THEN {<<>>}
  ELSE {Append(shorter, last) : shorter \in StopLists(n - 1), last \in StopOffsets}

\* shaders.js gradientColor, discrete branch: the loop over the uploaded
\* stops, in array order; best is the stop whose adjustments colour the pixel.
RECURSIVE discreteLoop(_, _, _, _)
discreteLoop(positions, t, i, best) ==
  IF i > Len(positions) THEN best
  ELSE discreteLoop(positions, t, i + 1, IF t >= positions[i] THEN i ELSE best)

\* shaders.js gradientColor, continuous branch: the loop from the second
\* stop on; prev is the stop before i in array order.
RECURSIVE continuousLoop(_, _, _, _)
continuousLoop(positions, t, i, prev) ==
  IF i > Len(positions) THEN [prev |-> prev, next |-> prev]
  ELSE IF t <= positions[prev] THEN [prev |-> prev, next |-> prev]
  ELSE IF t <= positions[i] THEN [prev |-> prev, next |-> i]
  ELSE continuousLoop(positions, t, i + 1, i)

\* shaders.js gradientColor for a non-empty stop list: the indices of the
\* stops the colour at t is computed from (prev = next when it is one stop).
gradientColor(positions, discrete, t) ==
  IF discrete THEN [prev |-> discreteLoop(positions, t, 1, 1),
                    next |-> discreteLoop(positions, t, 1, 1)]
  ELSE continuousLoop(positions, t, 2, 1)

\* renderer.js renderWebGL: the stop positions uploaded to the shader.
uploadedStops(positions) ==
  SubSeq(positions, 1, Min(Len(positions), MAX_GRADIENT_STOPS))

\* part_002 createCanvasGradient: the colour stops added to the canvas
\* gradient, in the order of the addColorStop calls, as <<offset, stop>>.
RECURSIVE addColorStops(_, _, _)
addColorStops(positions, discrete, index) ==
  IF index > Len(positions) THEN <<>>
  ELSE LET pos == positions[index]
           nextPos == IF index < Len(positions) THEN positions[index + 1] ELSE PosOne
           epsilon == Max((nextPos - pos) \div 2, 1)
       IN (IF discrete THEN << <<pos, index>>, <<Min(pos + epsilon, PosOne), index>> >>
           ELSE << <<pos, index>> >>)
          \o addColorStops(positions, discrete, index + 1)

\* The canvas gradient keeps its colour stops ordered by offset, stops of
\* equal offset in the order they were added.
RECURSIVE InsertStop(_, _)
InsertStop(sorted, stop) ==
  IF sorted = <<>> THEN <<stop>>
  ELSE IF sorted[Len(sorted)][1] <= stop[1] THEN Append(sorted, stop)
  ELSE Append(InsertStop(SubSeq(sorted, 1, Len(sorted) - 1), stop), sorted[Len(sorted)])
RECURSIVE SortStops(_)
SortStops(colorStops) ==
  IF colorStops = <<>> THEN <<>>
  ELSE InsertStop(SortStops(SubSeq(colorStops, 1, Len(colorStops) - 1)),
                  colorStops[Len(colorStops)])

\* The canvas gradient's colour at t: the first colour stop before all of them,
\* the last one from the last offset on, and between two colour stops the
\* interpolation of the two.
canvasGradientColor(colorStops, t) ==
  LET sorted == SortStops(colorStops)
      reached == {k \in 1..Len(sorted) : sorted[k][1] <= t}
      k == CHOOSE top \in reached : \A other \in reached : other <= top
  IN IF reached = {} THEN [prev |-> sorted[1][2], next |-> sorted[1][2]]
     ELSE IF k = Len(sorted) \/ sorted[k][1] = t THEN [prev |-> sorted[k][2], next |-> sorted[k][2]]
     ELSE [prev |-> sorted[k][2], next |-> sorted[k + 1][2]]

ShadeInputs ==
  \/ \E px \in Pixels : shade = [step |-> "input", of |-> "pixel", px |-> px]
  \/ \E state \in {defaultState, NoGrainState}, which \in {WebGLBuild, CanvasBuild} :
       shade = [step |-> "input", of |-> "canvas", state |-> state, which |-> which]
  \/ \E octaves \in 1..MaxOctaves, gain \in Gains, of \in {"noiseValue", "grainValue"} :
       \E samples \in Samples(octaves) :
         shade = [step |-> "input", of |-> of, samples |-> samples, octaves |-> octaves,
                  gain |-> gain]
  \/ \E count \in 1..MaxStopList, discrete \in BOOLEAN, t \in GradientTs,
        of \in {"shaderGradient", "canvasGradient"} :
       \E positions \in StopLists(count) :
         shade = [step |-> "input", of |-> of, positions |-> positions,
                  discrete |-> discrete, t |-> t]

InitShader ==
  /\ ShadeInputs
  /\ StateAtRest
  /\ AppAtLoad
  /\ locationHash = <<>>
  /\ RendererAtRest
  /\ MetaAtRest
  /\ PaintAtRest
  /\ HistoryAtRest

Shading(of) == shade.step = "input" /\ shade.of = of

\* The fragment shader colours the pixel.
ShadePixel ==
  /\ Shading("pixel")
  /\ shade' = [step |-> "pixel", amount |-> shade.px.amount, px |-> shade.px,
               color |-> fragmentColor(shade.px, TRUE),
               skipped |-> fragmentColor(shade.px, FALSE)]
  /\ UNCHANGED exceptShade

\* The Canvas2D grain pass, by a renderer that holds grain of the default state.
CanvasGrain ==
  /\ Shading("canvas")
  /\ \E before \in {applyNoise(Painter(shade.which, FALSE, defaultState), Whole(1920),
                               Whole(1080), defaultState).p} :
       shade' = [step |-> "canvas", amount |-> Get2(shade.state, "grain", "amount").v,
                 before |-> before,
                 made |-> IF shade.which = CanvasBuild
                          THEN applyNoise(before, Whole(1920), Whole(1080), shade.state)
                          ELSE [p |-> before,
                                ops |-> PassesNamed(
                                          renderCanvasFallback(Whole(1920), Whole(1080),
                                                               shade.state), "grain"),
                                generated |-> FALSE, key |-> Null]]
  /\ UNCHANGED exceptShade

\* The shader's multi-octave noise value of a pixel.
ShaderNoise ==
  /\ Shading("noiseValue")
  /\ shade' = [step |-> "noiseValue", samples |-> shade.samples, gain |-> shade.gain,
               value |-> noiseValue(shade.samples, shade.octaves, shade.gain),
               amplitude |-> AmplitudeOne \div 2]
  /\ UNCHANGED exceptShade

\* The grain generator's multi-octave value of a pixel.
GrainNoise ==
  /\ Shading("grainValue")
  /\ shade' = [step |-> "grainValue", samples |-> shade.samples, gain |-> shade.gain,
               value |-> grainValue(shade.samples, shade.octaves, shade.gain),
               amplitude |-> AmplitudeOne]
  /\ UNCHANGED exceptShade

\* The fragment shader chooses the stops of a pixel at gradient coordinate t.
ShaderGradient ==
  /\ Shading("shaderGradient")
  /\ shade' = [step |-> "gradient", positions |-> shade.positions,
               discrete |-> shade.discrete, t |-> shade.t,
               used |-> gradientColor(uploadedStops(shade.positions), shade.discrete,
                                      shade.t)]
  /\ UNCHANGED exceptShade

\* The Canvas2D gradient built from the stops colours a pixel at offset t.
CanvasGradient ==
  /\ Shading("canvasGradient")
  /\ shade' = [step |-> "gradient", positions |-> shade.positions,
               discrete |-> shade.discrete, t |-> shade.t,
               used |-> canvasGradientColor(
                          addColorStops(shade.positions, shade.discrete, 1), shade.t)]
  /\ UNCHANGED exceptShade

NextShader ==
  \/ ShadePixel
  \/ CanvasGrain
  \/ ShaderNoise
  \/ GrainNoise
  \/ ShaderGradient
  \/ CanvasGradient

SpecShader == InitShader /\ [][NextShader]_vars

\* C16: with grain.amount 0 the shader's colour of a pixel is the colour it
\* computes without the grain pass, and the Canvas2D grain pass draws nothing,
\* generates nothing and leaves the renderer's grain cache as it was.
C16_ZeroAmountIsNoGrain ==
  /\ (shade.step = "pixel" /\ shade.amount = 0) => shade.color = shade.skipped
  /\ (shade.step = "canvas" /\ shade.amount = 0) =>
       /\ shade.made.ops = <<>>
       /\ ~shade.made.generated
       /\ shade.made.p = shade.before

\* The amplitudes of the octaves used, starting from first, and the sum of
\* the samples weighted by them.
RECURSIVE Weighted(_, _, _, _)
Weighted(samples, gain, k, amp) ==
  IF k > Len(samples) THEN <<0, 0>>
  ELSE LET rest == Weighted(samples, gain, k + 1, (amp * gain) \div 100)
       IN <<rest[1] + amp * samples[k], rest[2] + amp>>

\* C18: a multi-octave noise value lies in [0,1] and is the weighted sum of
\* the octave samples divided by the sum of the amplitudes used.
C18_OctaveSumNormalised ==
  shade.step \in {"noiseValue", "grainValue"} =>
    LET used == Weighted(shade.samples, shade.gain, 1, shade.amplitude)
    IN /\ 0 <= shade.value.num
       /\ shade.value.num <= shade.value.den
       /\ shade.value.num * (used[2] * SampleOne) = used[1] * shade.value.den

(***************************************************************************)
(* History.  State objects live at addresses of a heap, so that two        *)
(* holders of one object see each other's edits; structuredClone and       *)
(* normalizeState put their result at a new address.  m is the record of   *)
(* heap, history list and the addresses held by main.js (current, pending, *)
(* detail, timer), the control panel and the renderer.                     *)
(***************************************************************************)
HistoryLimit == 12
MaxHistoryEvents == 3

HistorySeeds == {DefaultSeed, DefaultSeed + 1, DefaultSeed + 2}
HistoryStates == {Put2(defaultState, "random", "seed", Whole(k)) : k \in HistorySeeds}
\* The presets applied before the first event, when the list starts full.
EarlierState(n) == Put2(defaultState, "random", "seed", Whole(DefaultSeed + 2 + n))
Fingerprints ==
  [state \in HistoryStates \cup {EarlierState(n) : n \in 1..HistoryLimit} |->
     stateFingerprint(state)]

\* A new object; its address is Len of the heap afterwards.
Allocate(m, value) == [m EXCEPT !.heap = Append(@, value)]
Newest(m) == Len(m.heap)

\* addHistory without the pop of the oldest entry
addHistoryKeepsAll(m, label, state, detail) ==
  LET fingerprint == m.codec[m.heap[state]]
      exists == \E i \in 1..Len(m.history) : m.history[i].fingerprint = fingerprint
      cloned == Allocate(m, cloneState(m.heap[state]))
      entry == [label |-> label, fingerprint |-> fingerprint, state |-> Newest(cloned),
                detail |-> detail, stored |-> m.heap[state]]
  IN IF exists THEN m ELSE [cloned EXCEPT !.history = <<entry>> \o m.history]
\* presets.js addHistory; stored is the value at the time of the call
addHistory(m, label, state, detail) ==
  LET fingerprint == m.codec[m.heap[state]]
      exists == \E i \in 1..Len(m.history) : m.history[i].fingerprint = fingerprint
      cloned == Allocate(m, cloneState(m.heap[state]))
      entry == [label |-> label, fingerprint |-> fingerprint, state |-> Newest(cloned),
                detail |-> detail, stored |-> m.heap[state]]
      longer == <<entry>> \o m.history
  IN IF exists THEN m
     ELSE [cloned EXCEPT !.history = IF Len(longer) > HistoryLimit
                                     THEN SubSeq(longer, 1, Len(longer) - 1)
                                     ELSE longer]

\* presets.js removeHistory
removeHistory(m, fingerprint) ==
  [m EXCEPT !.history = SelectSeq(@, LAMBDA item : item.fingerprint # fingerprint)]

\* main.js updateState, ControlPanel.setState, renderer.updateState
updateCurrent(m, state) ==
  [m EXCEPT !.heap = Append(@, normalizeState(@[state])), !.refs.current = Len(m.heap) + 1]
panelSetState(m, state) ==
  [m EXCEPT !.heap = Append(@, cloneState(@[state])), !.refs.panel = Len(m.heap) + 1]
heapRendererUpdateState(m, state) ==
  [m EXCEPT !.heap = Append(@, cloneState(@[state])), !.refs.renderer = Len(m.heap) + 1]

\* a, then b, then c, each on the result of the one before
Then(made, next(_)) == CHOOSE out \in {next(before) : before \in {made}} : TRUE

\* main.js, the callback given to the PresetManager
onApply(m, state) ==
  Then(Then(updateCurrent([m EXCEPT !.refs.handed = state], state),
            LAMBDA a : panelSetState(a, state)),
       LAMBDA b : heapRendererUpdateState(b, state))

\* presets.js applyPreset
applyPreset(m, settings) ==
  Then(Allocate(m, normalizeState(settings)),
       LAMBDA normal :
         Then(addHistory(normal, "preset", Newest(normal), "Preset applied"),
              LAMBDA added :
                Then(Allocate(added, cloneState(added.heap[Newest(normal)])),
                     LAMBDA copied : onApply(copied, Newest(copied)))))

\* presets.js renderHistory, the Reapply listener, handing over the entry's
\* own state
reapplyShared(m, item) == onApply(m, item.state)
\* presets.js renderHistory, the Reapply listener
reapply(m, item) ==
  Then(Allocate(m, cloneState(m.heap[item.state])),
       LAMBDA copied : onApply(copied, Newest(copied)))

\* main.js summarizeStateChange: the sections are compared as JSON text;
\* here as values.
summarizeStateChange(previousState, nextState) ==
  IF \A key \in {"canvas", "color", "rendering", "gradient", "grain", "vignette",
                 "random", "output"} : Get(previousState, key) = Get(nextState, key)
  THEN "Settings updated"
  ELSE "settings adjusted"

\* main.js queueHistoryEntry; commitHistoryEntry is debounced
queueHistoryEntry(m, state, detail) ==
  IF detail = "" \/ detail = "Settings updated"
  THEN [m EXCEPT !.refs.pending = 0, !.refs.detail = ""]
  ELSE [m EXCEPT !.heap = Append(@, cloneState(@[state])),
                 !.refs.pending = Len(m.heap) + 1, !.refs.detail = detail,
                 !.refs.timer = TRUE]

\* main.js heapHandleStateChange as far as the state objects go
heapHandleStateChange(m, nextState) ==
  LET previousState == cloneState(m.heap[m.refs.current])
  IN Then(Then(updateCurrent(m, nextState),
               LAMBDA a : heapRendererUpdateState(a, nextState)),
          LAMBDA updated :
            queueHistoryEntry(updated, updated.refs.current,
                              summarizeStateChange(previousState,
                                                   updated.heap[updated.refs.current])))

\* controls.js: a control writes into the panel's state object and emits a
\* snapshot of it
panelEdit(m, seed) ==
  Then(Allocate([m EXCEPT !.heap[m.refs.panel] = Put2(@, "random", "seed", seed),
                           !.refs.edits = @ + 1],
                cloneState(Put2(m.heap[m.refs.panel], "random", "seed", seed))),
       LAMBDA snapshot : heapHandleStateChange(snapshot, Newest(snapshot)))

\* main.js commitHistoryEntry when its timer fires
commitHistoryEntry(m) ==
  IF m.refs.pending = 0 \/ m.refs.detail = "" THEN [m EXCEPT !.refs.timer = FALSE]
  ELSE Then(addHistory(m, "Adjusted", m.refs.pending, m.refs.detail),
            LAMBDA added : [added EXCEPT !.refs.pending = 0, !.refs.detail = "",
                                         !.refs.timer = FALSE])

\* main.js, the reset button
heapResetClick(m) ==
  Then(Then([m EXCEPT !.heap = Append(@, cloneState(defaultState)),
                       !.refs.current = Len(m.heap) + 1],
            LAMBDA a : panelSetState(a, a.refs.current)),
       LAMBDA b : heapRendererUpdateState(b, b.refs.current))

\* main.js bootstrap: initState, the renderer, the control panel and the
\* entry 'Initial'
bootstrapHistory(codec) ==
  LET empty == [heap |-> <<>>, history |-> <<>>, refs |-> NoRefs, codec |-> codec]
      begun == [empty EXCEPT !.heap = <<cloneState(defaultState)>>, !.refs.current = 1]
  IN Then(Then(heapRendererUpdateState(begun, 1), LAMBDA a : panelSetState(a, 1)),
          LAMBDA built : addHistory(built, "Initial", built.refs.current,
                                    "Starting point"))

\* The application after bootstrap and n presets applied one after the other.
RECURSIVE afterPresets(_, _)
afterPresets(codec, n) ==
  IF n = 0 THEN bootstrapHistory(codec)
  ELSE Then(afterPresets(codec, n - 1), LAMBDA m : applyPreset(m, EarlierState(n)))

History(codec) == [heap |-> heap, history |-> history, refs |-> refs, codec |-> codec]
CommitHistory(made, last) ==
  /\ historyEvents < MaxHistoryEvents
  /\ heap' = made.heap
  /\ history' = made.history
  /\ refs' = [made.refs EXCEPT !.last = last]
  /\ historyEvents' = historyEvents + 1
  /\ UNCHANGED exceptHistory

InitHistory ==
  /\ \E n \in {0, HistoryLimit - 1} :
       \E made \in {afterPresets(Fingerprints, n)} :
         /\ heap = made.heap
         /\ history = made.history
         /\ refs = made.refs
         /\ historyEvents = IF n = 0 THEN 0 ELSE MaxHistoryEvents - 1
  /\ StateAtRest
  /\ AppAtLoad
  /\ locationHash = <<>>
  /\ RendererAtRest
  /\ MetaAtRest
  /\ PaintAtRest
  /\ shade = NoShade

PanelEdit(m) ==
  \E k \in HistorySeeds : \E made \in {panelEdit(m, Whole(k))} : CommitHistory(made, "edit")
HistoryTimer(m) ==
  /\ refs.timer
  /\ \E made \in {commitHistoryEntry(m)} : CommitHistory(made, "commit")
PresetClick(m) ==
  \E settings \in HistoryStates :
    \E made \in {applyPreset(m, settings)} : CommitHistory(made, "preset")
ReapplyClick(m) ==
  \E i \in 1..Len(history) :
    \E made \in {reapply(m, history[i])} : CommitHistory(made, "reapply")
RemoveClick(m) ==
  \E i \in 1..Len(history) :
    \E made \in {removeHistory(m, history[i].fingerprint)} : CommitHistory(made, "remove")
HeapResetClick(m) ==
  \E made \in {heapResetClick(m)} : CommitHistory(made, "reset")

NextHistory ==
  \E codec \in {Fingerprints} :
    \E m \in {History(codec)} :
      \/ PanelEdit(m)
      \/ HistoryTimer(m)
      \/ PresetClick(m)
      \/ ReapplyClick(m)
      \/ RemoveClick(m)
      \/ HeapResetClick(m)

SpecHistory == InitHistory /\ [][NextHistory]_vars

\* C19: the state object of a history entry is held by nobody else (not as
\* the current state, the panel's or the renderer's state, the pending
\* snapshot, the object handed over on re-apply, or another entry), and its
\* value and fingerprint are those it was stored with.
C19_HistoryEntriesIndependent ==
  \A i \in 1..Len(history) :
    /\ history[i].state \notin {refs.current, refs.panel, refs.renderer, refs.pending,
                                refs.handed}
    /\ \A j \in 1..Len(history) : j # i => history[j].state # history[i].state
    /\ heap[history[i].state] = history[i].stored
    /\ Fingerprints[heap[history[i].state]] = history[i].fingerprint

\* An entry has just been re-applied after the panel's state object was
\* edited in place to a value other than the entry's.
C19_Witness ==
  /\ refs.last = "reapply"
  /\ refs.edits > 0
  /\ \E i \in 1..Len(history) :
       /\ heap[refs.handed] = history[i].stored
       /\ \E j \in 1..Len(history) : history[j].stored # history[i].stored

\* C21: after a preview render by the Canvas2D renderer the buffer has the
\* size of the state's canvas and is not dirty, and the render repainted the
\* buffer only if the renderer had been given a state since the last paint or
\* the buffer had another size; a render after pan and zoom alone repaints
\* nothing.
C21_BufferRepaintedOnlyWhenStale ==
  (painter.build = CanvasBuild /\ lastPaint.kind = "preview") =>
    /\ lastPaint.bufferAfter = <<Get2(lastPaint.snapshot, "canvas", "width"),
                                 Get2(lastPaint.snapshot, "canvas", "height")>>
    /\ ~lastPaint.dirtyAfter
    /\ lastPaint.passes # <<>> =>
         (lastPaint.updated \/ lastPaint.bufferBefore # lastPaint.bufferAfter)

\* C22: a render that runs the dither pass is an export, and an export of a
\* snapshot whose format is jpg.
C22_DitherOnlyInJpgExport ==
  PassesNamed(lastPaint.passes, "dither") # <<>> =>
    /\ lastPaint.kind = "export"
    /\ Get2(lastPaint.snapshot, "output", "format") = Str("jpg")


\* The positions of the stops that are at or before t.
StopsUpTo(positions, t) == {positions[i] : i \in {j \in 1..Len(positions) : positions[j] <= t}}

\* C23: in discrete mode the colour at t is that of one stop, the stop with the
\* greatest pos that is <= t, and the first stop of the array when no stop has
\* pos <= t.
C23_DiscreteStopIsGreatestBelow ==
  (shade.step = "gradient" /\ shade.discrete) =>
    /\ shade.positions[shade.used.prev] = shade.positions[shade.used.next]
    /\ IF StopsUpTo(shade.positions, shade.t) = {}
       THEN shade.used.prev = 1
       ELSE \A pos \in StopsUpTo(shade.positions, shade.t) :
              pos <= shade.positions[shade.used.prev]
                /\ shade.positions[shade.used.prev] <= shade.t

\* C24: in continuous mode the colour at t is computed from a pair of stops
\* that are neighbours in ascending pos order and have prev.pos <= t <= next.pos,
\* whatever the order of the array; before the first and after the last stop
\* of that order it is the colour of the nearest stop.
C24_ContinuousBracketsInPosOrder ==
  (shade.step = "gradient" /\ ~shade.discrete) =>
    LET pos == shade.positions
        prev == pos[shade.used.prev]
        next == pos[shade.used.next]
    IN IF \A i \in 1..Len(pos) : shade.t < pos[i]
       THEN prev = next /\ \A i \in 1..Len(pos) : prev <= pos[i]
       ELSE IF \A i \in 1..Len(pos) : pos[i] < shade.t
       THEN prev = next /\ \A i \in 1..Len(pos) : pos[i] <= prev
       ELSE /\ prev <= shade.t
            /\ shade.t <= next
            /\ \A i \in 1..Len(pos) : ~(prev < pos[i] /\ pos[i] < next)

\* C25: whenever renderDirty is false and no render is in flight,
\* lastRenderResult exists and its fingerprint is that of currentState.
C25_CleanMeansRendered ==
  (~renderDirty /\ ~isRendering) =>
    /\ lastRenderResult # Null
    /\ lastRenderMatchesCurrent(Main(Codec))

\* The application when every renderToBlob call settles successfully.
NextSettling ==
  \E codec \in {Codec} :
    \/ Bootstrap(codec) \/ AddStop(codec) \/ RemoveStop(codec) \/ SelectFormat(codec)
    \/ ResetClick(codec) \/ ImportJson(codec) \/ UserNavigates(codec)
    \/ HashChange(codec) \/ HashUpdateTimer(codec) \/ AutoRenderTimer(codec)
    \/ RenderClick(codec) \/ DownloadClick(codec) \/ ExportResolves(codec)

\* The page loads, queued hashchange events are delivered, timers that are set
\* fire, and a pending renderToBlob settles; the user's actions may stop at
\* any time.
SpecSettling ==
  /\ InitApp
  /\ [][NextSettling]_vars
  /\ WF_vars(\E codec \in {Codec} : Bootstrap(codec))
  /\ WF_vars(\E codec \in {Codec} : HashChange(codec))
  /\ WF_vars(\E codec \in {Codec} : HashUpdateTimer(codec))
  /\ WF_vars(\E codec \in {Codec} : AutoRenderTimer(codec))
  /\ WF_vars(\E codec \in {Codec} : ExportResolves(codec))

\* C26: once the state changes no more, a render of the current state
\* completes without further user action: from some point on lastRenderResult
\* holds the fingerprint of the current state.
C26_EventuallyRendered ==
  <>[](renderer /\ lastRenderMatchesCurrent(Main(Codec)))

\* C27: when a WebGL export settles, the renderer's state is the argument of
\* the most recent updateState call (or the constructor's, when there was
\* none), also when that call came while the export was awaiting its blob, and
\* a zoom set by wheel events during the export stays as those events left it.
C27_UpdateDuringExportKept ==
  [][(toBlob.kind = "webgl" /\ rendererEvent' \in {"resolved", "rejected"}) =>
       /\ rendererState' = supplied
       /\ previewZoom # 100 => previewZoom' = previewZoom]_vars

\* C28: when renderWebGLToBlob settles with no event since the call, by a blob
\* or by an encoding error, the renderer's state, canvas size, preview offset
\* and preview zoom are what they were before the call.
C28_ExportRestoresRenderer ==
  [][(toBlob.kind = "webgl" /\ rendererEvent = "renderToBlob"
        /\ rendererEvent' \in {"resolved", "rejected"}) =>
       /\ rendererState' = toBlob.prevState
       /\ canvasSize' = toBlob.prevCanvasSize
       /\ previewOffset' = toBlob.prevOffset
       /\ previewZoom' = toBlob.prevZoom]_vars

\* C29: a hashchange event that finds in the location a fragment the
\* application wrote there itself (not one the user navigated to) leaves
\* currentState as it is, also when the user edited the state between the
\* write and the delivery of the event.
C29_OwnHashChangeIgnored ==
  [][(lastEvent' = "hashchange" /\ locationHash \notin UserHashes) =>
       currentState' = currentState]_vars

\* The history list after addHistory of a state with this fingerprint, and
\* after removeHistory.
AddedToHistory(fingerprint) ==
  IF \E i \in 1..Len(history) : history[i].fingerprint = fingerprint
  THEN history' = history
  ELSE /\ Len(history') = Min(Len(history) + 1, HistoryLimit)
       /\ history'[1].fingerprint = fingerprint
       /\ \A i \in 2..Len(history') : history'[i] = history[i - 1]
RemovedFromHistory ==
  \E i \in 1..Len(history) :
    history' = SubSeq(history, 1, i - 1) \o SubSeq(history, i + 1, Len(history))

====
